---- MODULE Spec2Model ----
(***************************************************************************)
(* lazydynamo: the data-acquisition and caching subsystem.                 *)
(*                                                                         *)
(*   SpecScan   one run of TableDataModel.fetchAndCacheTableData: the      *)
(*              describe call, the segment workers, the error channel,     *)
(*              the accumulator and the cache write.                       *)
(*   SpecCache  the read-through cache: fetchCollections / fetchAllData,   *)
(*              LoadCache / SaveCache on the cache files, the background   *)
(*              refresh goroutines and the clock.                          *)
(*   SpecUI     MainModel.Update: key presses, fetch commands in flight    *)
(*              and their completion messages.                             *)
(***************************************************************************)
EXTENDS Integers, Sequences, FiniteSets, TLC

VARIABLES
    \* ---- the machine and the database service
    numCPU,      \* runtime.NumCPU()
    keySchema,   \* the KeySchema DescribeTable reports for every table
    tbl,         \* table name -> [n: number of records, bad: ids of records holding an unsupported value]
    \* ---- the cache directory and the clock
    clock,       \* time.Now(), in days
    diskOK,      \* whether the cache directory can be created and written
    files,       \* cache file path -> [exists, content (the bytes, as JSON tokens)]
    \* ---- goroutines running a fetch (a tea.Cmd or a background refresh)
    task,        \* task id -> the goroutine's locals and position
    wk,          \* task id -> sequence of segment workers (index s+1 is segment s)
    msgs,        \* tea.Msg values returned by commands, in order of return
    \* ---- MainModel (the UI event loop)
    ui,          \* MainModel's fields
    cmds,        \* fetch commands issued by Update and not yet completed
    \* ---- the record serializer on its own
    conv         \* one record on its way through DynamoItemToMap and encoding/json

scanVars == <<numCPU, keySchema, tbl, clock, diskOK, files, task, wk, msgs, conv>>
uiVars == <<ui, cmds>>
vars == <<numCPU, keySchema, tbl, clock, diskOK, files, task, wk, msgs, ui, cmds, conv>>

(***************************************************************************)
(* Bounds of the model.                                                    *)
(***************************************************************************)
MaxCPU == 6       \* numCPU ranges over 1..MaxCPU
MaxRecords == 3   \* a table holds 0..MaxRecords records
MaxPage == 2      \* the service returns at most MaxPage records per page (its response-size cap)
MaxTime == 4      \* the clock runs over 0..MaxTime days
ReadSize == 4     \* tokens one Read of the JSON decoder takes from a file
MaxTasks == 2     \* goroutines running a fetch at once in SpecCache

(***************************************************************************)
(* Program constants.                                                      *)
(***************************************************************************)
ScanLimit == 100          \* Limit: aws.Int32(100)
CacheDuration == 3        \* 72 * time.Hour, in days
CacheDir == "~/.lazydynamo_cache"
CollectionsCacheFilePath == CacheDir \o "/" \o "collections_cache.json"

Min(a, b) == IF a <= b THEN a ELSE b

(***************************************************************************)
(* Go values.  A nil-able map or pointer is a record with an isNil flag.   *)
(***************************************************************************)
NilMap == [isNil |-> TRUE, m |-> <<>>]
MakeMap(f) == [isNil |-> FALSE, m |-> f]
NilString == [isNil |-> TRUE, s |-> ""]
PtrString(s) == [isNil |-> FALSE, s |-> s]

(***************************************************************************)
(* internals/tools/dynamo_item_to_map.go                                   *)
(* An AttributeValue is [T |-> member, Value |-> ...]; a converted value   *)
(* (interface{}) is [g |-> Go type, v |-> ...].                            *)
(***************************************************************************)
\* Mutant: the elements of a set come out in the opposite order.
RECURSIVE attributeValueSetsReversed(_)
attributeValueSetsReversed(av) ==
    CASE av.T \in {"S", "N"} -> [err |-> FALSE, val |-> [g |-> "string", v |-> av.Value]]
      [] av.T = "BOOL" -> [err |-> FALSE, val |-> [g |-> "bool", v |-> av.Value]]
      [] av.T \in {"SS", "NS"} ->
            [err |-> FALSE,
             val |-> [g |-> "[]string",
                      v |-> [i \in 1..Len(av.Value) |-> av.Value[Len(av.Value) + 1 - i]]]]
      [] av.T = "L"    ->
            LET r == [i \in 1..Len(av.Value) |-> attributeValueSetsReversed(av.Value[i])]
            IN  IF \E i \in 1..Len(av.Value) : r[i].err
                THEN [err |-> TRUE, val |-> [g |-> "nil"]]
                ELSE [err |-> FALSE,
                      val |-> [g |-> "[]interface{}", v |-> [i \in 1..Len(av.Value) |-> r[i].val]]]
      [] av.T = "M"    ->
            LET r == [k \in DOMAIN av.Value |-> attributeValueSetsReversed(av.Value[k])]
            IN  IF \E k \in DOMAIN av.Value : r[k].err
                THEN [err |-> TRUE, val |-> [g |-> "nil"]]
                ELSE [err |-> FALSE,
                      val |-> [g |-> "map", v |-> [k \in DOMAIN av.Value |-> r[k].val]]]
      [] av.T = "NULL" -> [err |-> FALSE, val |-> [g |-> "nil"]]
      [] av.T = "B"    -> [err |-> FALSE, val |-> [g |-> "[]byte", v |-> av.Value]]
      [] av.T = "BS"   -> [err |-> FALSE, val |-> [g |-> "[][]byte", v |-> av.Value]]
      [] OTHER         -> [err |-> TRUE, val |-> [g |-> "nil"]]

RECURSIVE attributeValueToInterface(_)
attributeValueToInterface(av) ==
    CASE av.T = "S"    -> [err |-> FALSE, val |-> [g |-> "string", v |-> av.Value]]
      [] av.T = "N"    -> [err |-> FALSE, val |-> [g |-> "string", v |-> av.Value]]
      [] av.T = "BOOL" -> [err |-> FALSE, val |-> [g |-> "bool", v |-> av.Value]]
      [] av.T = "SS"   -> [err |-> FALSE, val |-> [g |-> "[]string", v |-> av.Value]]
      [] av.T = "NS"   -> [err |-> FALSE, val |-> [g |-> "[]string", v |-> av.Value]]
      [] av.T = "L"    ->
            LET r == [i \in 1..Len(av.Value) |-> attributeValueToInterface(av.Value[i])]
            IN  IF \E i \in 1..Len(av.Value) : r[i].err
                THEN [err |-> TRUE, val |-> [g |-> "nil"]]
                ELSE [err |-> FALSE,
                      val |-> [g |-> "[]interface{}", v |-> [i \in 1..Len(av.Value) |-> r[i].val]]]
      [] av.T = "M"    ->
            LET r == [k \in DOMAIN av.Value |-> attributeValueToInterface(av.Value[k])]
            IN  IF \E k \in DOMAIN av.Value : r[k].err
                THEN [err |-> TRUE, val |-> [g |-> "nil"]]
                ELSE [err |-> FALSE,
                      val |-> [g |-> "map", v |-> [k \in DOMAIN av.Value |-> r[k].val]]]
      [] av.T = "NULL" -> [err |-> FALSE, val |-> [g |-> "nil"]]
      [] av.T = "B"    -> [err |-> FALSE, val |-> [g |-> "[]byte", v |-> av.Value]]
      [] av.T = "BS"   -> [err |-> FALSE, val |-> [g |-> "[][]byte", v |-> av.Value]]
      [] OTHER         -> [err |-> TRUE, val |-> [g |-> "nil"]]

DynamoItemToMap(item) ==
    LET r == [k \in DOMAIN item |-> attributeValueToInterface(item[k])]
    IN  IF \E k \in DOMAIN item : r[k].err
        THEN [err |-> TRUE, val |-> [g |-> "nil"]]
        ELSE [err |-> FALSE, val |-> [g |-> "map", v |-> [k \in DOMAIN item |-> r[k].val]]]

\* No record is in the serializer.
NoConv == [pc |-> "none"]

(***************************************************************************)
(* encoding/json.Marshal of a converted value: the JSON text, as its       *)
(* syntax tree.  A []byte is written as a base64 string, a slice as an     *)
(* array, a map as an object.                                              *)
(***************************************************************************)
RECURSIVE jsonMarshal(_)
jsonMarshal(x) ==
    CASE x.g = "string"        -> [j |-> "string", v |-> x.v]
      [] x.g = "bool"          -> [j |-> "bool", v |-> x.v]
      [] x.g = "nil"           -> [j |-> "null"]
      [] x.g = "[]string"      -> [j |-> "array", v |-> [i \in 1..Len(x.v) |-> [j |-> "string", v |-> x.v[i]]]]
      [] x.g = "[]interface{}" -> [j |-> "array", v |-> [i \in 1..Len(x.v) |-> jsonMarshal(x.v[i])]]
      [] x.g = "map"           -> [j |-> "object", v |-> [k \in DOMAIN x.v |-> jsonMarshal(x.v[k])]]
      [] x.g = "[]byte"        -> [j |-> "string", v |-> <<"base64", x.v>>]
      [] x.g = "[][]byte"      -> [j |-> "array", v |-> [i \in 1..Len(x.v) |-> [j |-> "string", v |-> <<"base64", x.v[i]>>]]]

(***************************************************************************)
(* list.Item values.  Both item types are Go strings: a table name (plain  *)
(* text) or the JSON text of a record.                                     *)
(***************************************************************************)
PlainText(s) == [j |-> "text", v |-> s]
tableNameItem(s) == [row |-> s]
tableDataRow(s) == [row |-> s]
FilterValue(i) == i.row

(***************************************************************************)
(* lazydynamo/view_row_model.go: the key schema resolver.                  *)
(***************************************************************************)
RECURSIVE extractLoop(_, _, _)
extractLoop(ks, partitionKey, sortKey) ==
    IF ks = <<>> THEN [partitionKey |-> partitionKey, sortKey |-> sortKey]
    ELSE LET keyElement == Head(ks)
         IN  CASE keyElement.KeyType = "HASH" ->
                      extractLoop(Tail(ks), keyElement.AttributeName, sortKey)
               [] keyElement.KeyType = "RANGE" ->
                      extractLoop(Tail(ks), partitionKey, PtrString(keyElement.AttributeName))
               [] OTHER -> extractLoop(Tail(ks), partitionKey, sortKey)

\* Mutant: the check for an empty partition key is missing.
extractWithoutCheck(ks) ==
    [partitionKey |-> extractLoop(ks, "", NilString).partitionKey,
     sortKey |-> extractLoop(ks, "", NilString).sortKey, err |-> FALSE]

extractPrimaryKeyAttributes(ks) ==
    LET r == extractLoop(ks, "", NilString)
    IN  IF r.partitionKey = ""
        THEN [partitionKey |-> "", sortKey |-> NilString, err |-> TRUE]
        ELSE [partitionKey |-> r.partitionKey, sortKey |-> r.sortKey, err |-> FALSE]

\* Mutant: only one attribute outside the key schema is removed per call.
validateDropOneExtra(startKey, partitionKey, sortKey) ==
    IF startKey.isNil THEN NilMap
    ELSE LET extra == {a \in DOMAIN startKey.m :
                          ~(a = partitionKey \/ (~sortKey.isNil /\ a = sortKey.s))}
             drop == IF extra = {} THEN {} ELSE {CHOOSE a \in extra : TRUE}
         IN  MakeMap([a \in DOMAIN startKey.m \ drop |-> startKey.m[a]])

\* Mutant: a token left without attributes is returned as nil.
validateEmptyAsNil(startKey, partitionKey, sortKey) ==
    IF startKey.isNil THEN NilMap
    ELSE LET keep == {a \in DOMAIN startKey.m :
                         \/ a = partitionKey
                         \/ (~sortKey.isNil /\ a = sortKey.s)}
         IN  IF keep = {} THEN NilMap ELSE MakeMap([a \in keep |-> startKey.m[a]])

validateExclusiveStartKey(startKey, partitionKey, sortKey) ==
    IF startKey.isNil THEN NilMap
    ELSE LET keep == {a \in DOMAIN startKey.m :
                         \/ a = partitionKey
                         \/ (~sortKey.isNil /\ a = sortKey.s)}
         IN  MakeMap([a \in keep |-> startKey.m[a]])

\* Mutant: the table name is left out of the path.
tableDataCacheFilePathShared(tableName) == CacheDir \o "/" \o "data_cache.json"

tableDataCacheFilePath(tableName) == CacheDir \o "/" \o tableName \o "_data_cache.json"

(***************************************************************************)
(* The database service: tables, their items, and the scan-segment and     *)
(* list-tables calls.                                                      *)
(***************************************************************************)
Tables == <<"A", "B">>
TableNames == {Tables[i] : i \in DOMAIN Tables}

KeyAttrs == {keySchema[i].AttributeName : i \in DOMAIN keySchema}
NumberAV(i) == [T |-> "N", Value |-> ToString(i)]
StringAV(s) == [T |-> "S", Value |-> s]
UnknownAV == [T |-> "UnknownUnionMember"]
\* A record's payload; a bad record nests a value of an unsupported type.
Payload(t, i) ==
    IF i \in tbl[t].bad
    THEN [T |-> "L", Value |-> <<StringAV(t), UnknownAV>>]
    ELSE [T |-> "M", Value |-> [a \in {"name"} |-> StringAV(t)]]
Item(t, i) ==
    [a \in KeyAttrs \cup {"v"} |-> IF a \in KeyAttrs THEN NumberAV(i) ELSE Payload(t, i)]
KeyOf(i) == MakeMap([a \in KeyAttrs |-> NumberAV(i)])
IdOfKey(k) == CHOOSE i \in 0..(MaxRecords + 1) : \A a \in DOMAIN k.m : k.m[a] = NumberAV(i)

\* The service hashes every record into exactly one of `total` segments.
SegmentOf(i, total) == (i - 1) % total

RECURSIVE SortedSeq(_)
SortedSeq(S) ==
    IF S = {} THEN <<>>
    ELSE LET lo == CHOOSE x \in S : \A y \in S : x <= y
         IN  <<lo>> \o SortedSeq(S \ {lo})

\* Every response the service can give to one Scan call.
ScanResponses(t, seg, total, limit, esk) ==
    LET failure == [err |-> "scan failed: segment " \o ToString(seg),
                    Items |-> <<>>, LastEvaluatedKey |-> NilMap]
        rejected == [err |-> "ValidationException: segment " \o ToString(seg),
                     Items |-> <<>>, LastEvaluatedKey |-> NilMap]
    IN  IF ~esk.isNil /\ DOMAIN esk.m # KeyAttrs
        THEN {rejected}
        ELSE LET after == IF esk.isNil THEN 0 ELSE IdOfKey(esk)
                 rest == SortedSeq({i \in 1..tbl[t].n : SegmentOf(i, total) = seg /\ i > after})
             IN  {failure} \cup
                 UNION {
                    LET k == Min(cap, Len(rest))
                        page == [i \in 1..k |-> Item(t, rest[i])]
                    IN  {[err |-> "", Items |-> page, LastEvaluatedKey |-> lek] :
                            lek \in (IF Len(rest) > k THEN {KeyOf(rest[k])}
                                     ELSE IF k > 0 THEN {NilMap, KeyOf(rest[k])}
                                     ELSE {NilMap})}
                    : cap \in 1..Min(limit, MaxPage)}

\* Every response the service can give to one ListTables call of the paginator,
\* which has already returned `done` names.
ListResponses(done) ==
    {[err |-> "list tables failed", TableNames |-> <<>>, more |-> FALSE]} \cup
    {[err |-> "", TableNames |-> SubSeq(Tables, done + 1, Min(done + cap, Len(Tables))),
      more |-> done + cap < Len(Tables)] : cap \in 1..MaxPage}

(***************************************************************************)
(* internals/tools/manage_cache.go.  A file's bytes are the tokens of the  *)
(* JSON document {"data": [...], "updated": ...}.                          *)
(***************************************************************************)
Tok(k) == [k |-> k]
ItemTok(s) == [k |-> "string", v |-> s]
TimeTok(t) == [k |-> "time", v |-> t]
NoFile == [exists |-> FALSE, content |-> <<>>]
NoCache == [ok |-> FALSE, Data |-> <<>>, Updated |-> 0]
Cache(data, updated) == [ok |-> TRUE, Data |-> data, Updated |-> updated]

\* json.NewEncoder(file).Encode(cache): a nil slice is written as null.
Encode(cache) ==
    <<Tok("{")>>
    \o (IF cache.Data = <<>> THEN <<Tok("null")>>
        ELSE <<Tok("[")>> \o [i \in 1..Len(cache.Data) |-> ItemTok(cache.Data[i])] \o <<Tok("]")>>)
    \o <<TimeTok(cache.Updated), Tok("}")>>

\* Mutant: a document whose data is null is refused.
DecodeRefusesNull(content) ==
    IF Len(content) < 5 \/ content[1].k # "{" \/ content[2].k # "[" THEN [ok |-> FALSE, Data |-> <<>>, Updated |-> 0]
    ELSE LET close == CHOOSE i \in 3..(Len(content) + 1) :
                          \/ i = Len(content) + 1
                          \/ content[i].k # "string"
         IN  IF close + 2 > Len(content) THEN [ok |-> FALSE, Data |-> <<>>, Updated |-> 0]
             ELSE IF content[close].k # "]" \/ content[close + 1].k # "time" \/ content[close + 2].k # "}"
             THEN [ok |-> FALSE, Data |-> <<>>, Updated |-> 0]
             ELSE [ok |-> TRUE, Data |-> [i \in 1..(close - 3) |-> content[i + 2].v],
                   Updated |-> content[close + 1].v]

\* json.NewDecoder(file).Decode(&cache): reads the first JSON value of the file and
\* ignores what follows it; an empty or cut-off document is an error.
RECURSIVE itemsEnd(_, _)
itemsEnd(content, i) ==
    IF i > Len(content) THEN 0
    ELSE IF content[i].k = "]" THEN i
    ELSE IF content[i].k = "string" THEN itemsEnd(content, i + 1)
    ELSE 0
Decode(content) ==
    IF Len(content) < 2 \/ content[1].k # "{" THEN NoCache
    ELSE LET close == IF content[2].k = "null" THEN 2
                      ELSE IF content[2].k = "[" THEN itemsEnd(content, 3)
                      ELSE 0
         IN  IF close = 0 \/ Len(content) < close + 2 THEN NoCache
             ELSE IF content[close + 1].k # "time" \/ content[close + 2].k # "}" THEN NoCache
             ELSE Cache([i \in 1..(close - 3) |-> content[i + 2].v], content[close + 1].v)

\* The decoder's scan of the bytes it has buffered (Decoder.readValue): the first
\* value is complete ("value"), the bytes cannot begin a document ("error"), or the
\* value is not finished and the decoder must read on ("more").
readValue(buf) ==
    IF Decode(buf).ok THEN "value"
    ELSE LET shapes == {<<"{", "null", "time", "}">>} \cup
                       {<<"{", "[">> \o [i \in 1..n |-> "string"] \o <<"]", "time", "}">> :
                            n \in 0..Len(buf)}
         IN  IF \E shape \in shapes :
                    /\ Len(buf) <= Len(shape)
                    /\ \A i \in 1..Len(buf) : buf[i].k = shape[i]
             THEN "more"
             ELSE "error"

\* A write of `bytes` at offset 0 of a file holding `old`.
WriteAt0(old, bytes) ==
    bytes \o (IF Len(old) > Len(bytes) THEN SubSeq(old, Len(bytes) + 1, Len(old)) ELSE <<>>)

(***************************************************************************)
(* Goroutines.  A task is one run of a fetch command (fetchCollections,    *)
(* fetchAllData) or of a background refresh                                *)
(* (refreshCacheInBackground, refreshTableDataCacheInBackground).          *)
(***************************************************************************)
TaskIds == DOMAIN task
Paths == {CollectionsCacheFilePath} \cup {tableDataCacheFilePath(n) : n \in TableNames}

Msg(type, items, err) == [type |-> type, items |-> items, err |-> err]
NoMsg == Msg("none", <<>>, "")
FetchErrorMsg(err) == Msg("FetchErrorMsg", <<>>, err)
DataFetchedMsg(items) == Msg("DataFetchedMsg", items, "")
TablesFetchedMsg(items) == Msg("TablesFetchedMsg", items, "")

NoTask ==
    [kind |-> "none", bg |-> FALSE, tableName |-> "", pc |-> "idle",
     buf |-> <<>>, cache |-> NoCache, loaded |-> FALSE, readAt |-> 0, hit |-> FALSE, fetched |-> FALSE, spawned |-> 0,
     partitionKey |-> "", sortKey |-> NilString, numSegments |-> 0,
     items |-> <<>>, errChan |-> <<>>, mu |-> 0, listed |-> 0,
     saving |-> NoCache, wrote |-> FALSE, afterSave |-> NoCache, result |-> NoMsg,
     describeErr |-> "", expired |-> FALSE, cutShort |-> FALSE, saveErr |-> ""]

\* The first statement of the synchronous fetch of a task's kind.
FetchStart(kind) == IF kind = "colls" THEN "list" ELSE "describe"

\* A goroutine entering fetchAndCacheCollections / fetchAndCacheTableData.
FetchTask(kind, name, bg) ==
    [NoTask EXCEPT !.kind = kind, !.tableName = name, !.bg = bg,
                   !.pc = FetchStart(kind), !.fetched = TRUE]

PathOf(tk) ==
    IF tk.kind = "colls" THEN CollectionsCacheFilePath ELSE tableDataCacheFilePath(tk.tableName)

NewWorker ==
    [pc |-> "scan", startKey |-> NilMap, input |-> [Segment |-> -1],
     jsonItems |-> <<>>, lek |-> NilMap, reads |-> 0, failed |-> FALSE, late |-> FALSE,
     tokens |-> 0, short |-> FALSE, converted |-> 0]

\* What the log holds of the outcome of a background refresh: the table-data fetch
\* logs its errors and both refresh functions log a successful fetch; a failed
\* listing of the collections is logged nowhere.
Logged(tk, msg) ==
    IF tk.kind = "colls" /\ msg.type = "FetchErrorMsg" THEN NoMsg ELSE msg

\* Mutant: the message of a background refresh is sent to the event loop as well.
ReturnToLoop(t, tk, msg) ==
    /\ task' = [task EXCEPT ![t] =
                  IF tk.bg THEN [NoTask EXCEPT !.bg = TRUE, !.result = Logged(tk, msg)]
                  ELSE NoTask]
    /\ wk' = [wk EXCEPT ![t] = <<>>]
    /\ msgs' = Append(msgs, [msg |-> msg, tk |-> [tk EXCEPT !.pc = "done", !.result = msg],
                             workers |-> wk[t]])

\* The goroutine of task t returns `msg` and is gone.  A command's message goes to the
\* event loop (recorded with the goroutine's final locals); a background refresh
\* leaves only its log entry.
Return(t, tk, msg) ==
    /\ task' = [task EXCEPT ![t] =
                  IF tk.bg THEN [NoTask EXCEPT !.bg = TRUE, !.result = Logged(tk, msg)]
                  ELSE NoTask]
    /\ wk' = [wk EXCEPT ![t] = <<>>]
    /\ msgs' = IF tk.bg THEN msgs
               ELSE Append(msgs, [msg |-> msg, tk |-> [tk EXCEPT !.pc = "done", !.result = msg],
                                  workers |-> wk[t]])

\* numSegments := runtime.NumCPU() / 2
SegmentCount(cpus) == cpus \div 2

\* fetchCollections / fetchAllData, first half of LoadCache: os.Open.
LoadCacheOpen(t) ==
    /\ t \in TaskIds
    /\ task[t].pc = "open"
    /\ task' = [task EXCEPT ![t] =
                  IF files[PathOf(task[t])].exists
                  THEN [task[t] EXCEPT !.pc = "decode"]
                  ELSE [task[t] EXCEPT !.pc = FetchStart(task[t].kind), !.fetched = TRUE]]
    /\ UNCHANGED <<conv, numCPU, keySchema, tbl, clock, diskOK, files, wk, msgs, ui, cmds>>

\* Mutant: the freshness test admits a record of age exactly CacheDuration.
FreshInclusive(cache, now) == cache.ok /\ now - cache.Updated <= CacheDuration

\* Whether a loaded record is served: err == nil && time.Since(cache.Updated) < CacheDuration
Fresh(cache, now) == cache.ok /\ now - cache.Updated < CacheDuration

\* Mutant: the cached record is served without the `go` statement that refreshes it.
LoadCacheDecodeNoRefresh(t) ==
    /\ t \in TaskIds
    /\ task[t].pc = "decode"
    /\ LET content == files[PathOf(task[t])].content
           read == SubSeq(content, Len(task[t].buf) + 1,
                          Min(Len(content), Len(task[t].buf) + ReadSize))
           buf == task[t].buf \o read
           cache == Decode(buf)
       IN  task' = [task EXCEPT ![t] =
                      IF readValue(buf) = "more" /\ read # <<>>
                      THEN [task[t] EXCEPT !.buf = buf]
                      ELSE IF cache.ok /\ clock - cache.Updated < CacheDuration
                      THEN [task[t] EXCEPT !.pc = "hit", !.buf = buf, !.cache = cache,
                                           !.loaded = TRUE, !.readAt = clock, !.hit = TRUE]
                      ELSE [task[t] EXCEPT !.pc = FetchStart(task[t].kind), !.buf = buf,
                                           !.cache = cache,
                                           !.loaded = TRUE, !.readAt = clock, !.fetched = TRUE]]
    /\ UNCHANGED <<conv, numCPU, keySchema, tbl, clock, diskOK, files, wk, msgs, ui, cmds>>

\* Second half of LoadCache, json.NewDecoder(file).Decode(&cache), one Read of the
\* file per step: the decoder reads on, from where its last Read ended, until the
\* bytes it holds make a complete value, cannot begin one, or the file ends.  Another
\* goroutine's SaveCache may truncate and rewrite the file between two Reads.  Then
\* the freshness test; a fresh record starts the background refresh goroutine.
LoadCacheDecode(t) ==
    /\ t \in TaskIds
    /\ task[t].pc = "decode"
    /\ LET content == files[PathOf(task[t])].content
           read == SubSeq(content, Len(task[t].buf) + 1,
                          Min(Len(content), Len(task[t].buf) + ReadSize))
           buf == task[t].buf \o read
           cache == Decode(buf)
       IN  IF readValue(buf) = "more" /\ read # <<>>
           THEN task' = [task EXCEPT ![t].buf = buf]
           ELSE IF Fresh(cache, clock)
           THEN \E u \in TaskIds :
                   /\ u # t
                   /\ task[u].kind = "none"
                   /\ \A v \in TaskIds : (v # t /\ task[v].kind = "none") => u <= v
                   /\ task' = [task EXCEPT
                         ![t] = [task[t] EXCEPT !.pc = "hit", !.buf = buf, !.cache = cache,
                                                !.loaded = TRUE, !.readAt = clock,
                                                !.hit = TRUE, !.spawned = task[t].spawned + 1],
                         ![u] = FetchTask(task[t].kind, task[t].tableName, TRUE)]
           ELSE task' = [task EXCEPT ![t] =
                           [task[t] EXCEPT !.pc = FetchStart(task[t].kind), !.buf = buf,
                                           !.cache = cache,
                                           !.loaded = TRUE, !.readAt = clock, !.fetched = TRUE]]
    /\ UNCHANGED <<conv, numCPU, keySchema, tbl, clock, diskOK, files, wk, msgs, ui, cmds>>

\* return DataFetchedMsg(items) / TablesFetchedMsg(items) built from cache.Data.
ReturnCached(t) ==
    /\ t \in TaskIds
    /\ task[t].pc = "hit"
    /\ LET data == task[t].cache.Data
       IN  IF task[t].kind = "colls"
           THEN Return(t, task[t], TablesFetchedMsg([i \in 1..Len(data) |-> tableNameItem(data[i])]))
           ELSE Return(t, task[t], DataFetchedMsg([i \in 1..Len(data) |-> tableDataRow(data[i])]))
    /\ UNCHANGED <<conv, numCPU, keySchema, tbl, clock, diskOK, files, ui, cmds>>

\* Mutant: the new values are appended to the data of the record read before.
SaveCacheBeginMerge(t, tk, okMsg) ==
    IF diskOK
    THEN /\ task' = [task EXCEPT ![t] =
                [tk EXCEPT !.pc = "create", !.result = okMsg,
                           !.saving = Cache(tk.cache.Data \o
                                            [i \in 1..Len(tk.items) |-> FilterValue(tk.items[i])],
                                            clock)]]
         /\ UNCHANGED <<wk, msgs>>
    ELSE Return(t, tk, okMsg)

\* SaveCache up to os.Create: MkdirAll, the items' FilterValues, time.Now().
\* A failure is logged by the caller, which returns the fetched items all the same.
SaveCacheBegin(t, tk, okMsg) ==
    IF diskOK
    THEN /\ task' = [task EXCEPT ![t] =
                [tk EXCEPT !.pc = "create", !.result = okMsg,
                           !.saving = Cache([i \in 1..Len(tk.items) |-> FilterValue(tk.items[i])], clock)]]
         /\ UNCHANGED <<wk, msgs>>
    ELSE Return(t, [tk EXCEPT !.saveErr = "mkdir failed"], okMsg)

\* Every response the service can give to one DescribeTable call.
DescribeTableResponses(tableName) ==
    {[err |-> "describe table failed", KeySchema |-> <<>>],
     [err |-> "", KeySchema |-> keySchema]}

DeadlineExceeded == "context deadline exceeded"

\* Mutant: the calls are made with a context that has no deadline.
WithBackgroundContext(expired, responses, failure) == responses

\* A service call made with ctx: once the deadline of ctx has elapsed the call fails.
WithContext(expired, responses, failure) == IF expired THEN {failure} ELSE responses

\* Mutant: a DescribeTable error is logged and the scan goes on.
DescribeTableLogOnly(t) ==
    /\ t \in TaskIds
    /\ task[t].pc = "describe"
    /\ \E tableInfo \in WithContext(task[t].expired, DescribeTableResponses(task[t].tableName),
                                     [err |-> DeadlineExceeded, KeySchema |-> <<>>]) :
          LET k == extractPrimaryKeyAttributes(keySchema)
          IN  IF k.err
              THEN Return(t, [task[t] EXCEPT !.describeErr = tableInfo.err],
                          FetchErrorMsg("partition key not found in table schema"))
              ELSE /\ task' = [task EXCEPT ![t] =
                          [task[t] EXCEPT !.pc = "launch", !.describeErr = tableInfo.err,
                                    !.partitionKey = k.partitionKey,
                                    !.sortKey = k.sortKey, !.numSegments = SegmentCount(numCPU)]]
                   /\ UNCHANGED <<wk, msgs>>
    /\ UNCHANGED <<conv, numCPU, keySchema, tbl, clock, diskOK, files, ui, cmds>>

\* fetchAndCacheTableData up to the launch of the workers.
DescribeTable(t) ==
    /\ t \in TaskIds
    /\ task[t].pc = "describe"
    /\ \E tableInfo \in WithContext(task[t].expired, DescribeTableResponses(task[t].tableName),
                                     [err |-> DeadlineExceeded, KeySchema |-> <<>>]) :
          IF tableInfo.err # ""
          THEN Return(t, [task[t] EXCEPT !.describeErr = tableInfo.err], FetchErrorMsg(tableInfo.err))
          ELSE LET k == extractPrimaryKeyAttributes(tableInfo.KeySchema)
               IN  IF k.err
                   THEN Return(t, task[t], FetchErrorMsg("partition key not found in table schema"))
                   ELSE /\ task' = [task EXCEPT ![t] =
                               [task[t] EXCEPT !.pc = "launch", !.partitionKey = k.partitionKey,
                                    !.sortKey = k.sortKey, !.numSegments = SegmentCount(numCPU)]]
                        /\ UNCHANGED <<wk, msgs>>
    /\ UNCHANGED <<conv, numCPU, keySchema, tbl, clock, diskOK, files, ui, cmds>>

\* One turn of the launch loop: wg.Add(1); go func(segment) {...}(segment).
LaunchWorker(t) ==
    /\ t \in TaskIds
    /\ task[t].pc = "launch"
    /\ Len(wk[t]) < task[t].numSegments
    /\ wk' = [wk EXCEPT ![t] = Append(@, NewWorker)]
    /\ UNCHANGED <<conv, numCPU, keySchema, tbl, clock, diskOK, files, task, msgs, ui, cmds>>

\* Mutant: the conversion loop ends at the first record that does not convert.
RECURSIVE ConvertItemsUntilError(_)
ConvertItemsUntilError(items) ==
    IF items = <<>> THEN <<>>
    ELSE LET mapItem == DynamoItemToMap(Head(items))
         IN  IF mapItem.err THEN <<>>
             ELSE <<tableDataRow(jsonMarshal(mapItem.val))>> \o ConvertItemsUntilError(Tail(items))

\* The items of a page converted to rows; a record that does not convert is skipped.
RECURSIVE ConvertItems(_)
ConvertItems(items) ==
    IF items = <<>> THEN <<>>
    ELSE LET mapItem == DynamoItemToMap(Head(items))
         IN  IF mapItem.err THEN ConvertItems(Tail(items))
             ELSE <<tableDataRow(jsonMarshal(mapItem.val))>> \o ConvertItems(Tail(items))

\* Mutant: the goroutine reads the loop variable it closed over instead of its own
\* segment parameter, so every worker scans segment 0.
ScanInputSharedSegment(tk, startKey, segment) ==
    [TableName |-> tk.tableName, Limit |-> ScanLimit,
     Segment |-> 0, TotalSegments |-> tk.numSegments,
     ExclusiveStartKey |-> validateExclusiveStartKey(startKey, tk.partitionKey, tk.sortKey)]

\* Mutant: TotalSegments is the number of CPUs, not the number of workers.
ScanInputTotalIsNumCPU(tk, startKey, segment) ==
    [TableName |-> tk.tableName, Limit |-> ScanLimit,
     Segment |-> segment, TotalSegments |-> numCPU,
     ExclusiveStartKey |-> validateExclusiveStartKey(startKey, tk.partitionKey, tk.sortKey)]

\* The dynamodb.ScanInput worker `segment` of task tk builds from its startKey.
ScanInput(tk, startKey, segment) ==
    [TableName |-> tk.tableName, Limit |-> ScanLimit,
     Segment |-> segment, TotalSegments |-> tk.numSegments,
     ExclusiveStartKey |-> validateExclusiveStartKey(startKey, tk.partitionKey, tk.sortKey)]

\* Mutant: make(chan error), a channel without a buffer.
ErrChanUnbuffered(numSegments) == 0

\* errChan := make(chan error, numSegments): the sends that complete with no receiver
ErrChanCapacity(numSegments) == numSegments

\* A worker's page read: client.Scan and, on success, the conversion of its items.
WorkerScan(t, s) ==
    /\ t \in TaskIds
    /\ task[t].pc = "launch"
    /\ s + 1 \in DOMAIN wk[t]
    /\ wk[t][s + 1].pc = "scan"
    /\ LET w == wk[t][s + 1]
           input == ScanInput(task[t], w.startKey, s)
       IN  \E output \in WithContext(task[t].expired,
                                     ScanResponses(input.TableName, input.Segment,
                                                   input.TotalSegments, input.Limit,
                                                   input.ExclusiveStartKey),
                                     [err |-> DeadlineExceeded, Items |-> <<>>,
                                      LastEvaluatedKey |-> NilMap]) :
              IF output.err # ""
              THEN /\ Len(task[t].errChan) < ErrChanCapacity(task[t].numSegments)   \* errChan <- err
                   /\ task' = [task EXCEPT ![t].errChan = Append(@, output.err)]
                   /\ wk' = [wk EXCEPT ![t][s + 1] =
                               [w EXCEPT !.pc = "done", !.input = input, !.reads = @ + 1,
                                         !.failed = TRUE]]
              ELSE /\ task' = task
                   /\ wk' = [wk EXCEPT ![t][s + 1] =
                               [w EXCEPT !.pc = "lock", !.input = input, !.reads = @ + 1,
                                         !.late = @ \/ task[t].errChan # <<>>,
                                         !.converted = @ + Len(ConvertItems(output.Items)),
                                         !.tokens = IF output.LastEvaluatedKey.isNil
                                                    THEN @ ELSE @ + 1,
                                         !.short = @ \/ (/\ ~output.LastEvaluatedKey.isNil
                                                         /\ Len(output.Items) < Min(input.Limit, MaxPage)),
                                         !.jsonItems = ConvertItems(output.Items),
                                         !.lek = output.LastEvaluatedKey]]
    /\ UNCHANGED <<conv, numCPU, keySchema, tbl, clock, diskOK, files, msgs, ui, cmds>>

\* Mutant: the workers append without taking the mutex.
WorkerNoLock(t, s) ==
    /\ t \in TaskIds
    /\ s + 1 \in DOMAIN wk[t]
    /\ wk[t][s + 1].pc = "lock"
    /\ task' = [task EXCEPT ![t].mu = s + 1]
    /\ wk' = [wk EXCEPT ![t][s + 1].pc = "append"]
    /\ UNCHANGED <<conv, numCPU, keySchema, tbl, clock, diskOK, files, msgs, ui, cmds>>

\* mu.Lock()
WorkerLock(t, s) ==
    /\ t \in TaskIds
    /\ s + 1 \in DOMAIN wk[t]
    /\ wk[t][s + 1].pc = "lock"
    /\ task[t].mu = 0
    /\ task' = [task EXCEPT ![t].mu = s + 1]
    /\ wk' = [wk EXCEPT ![t][s + 1].pc = "append"]
    /\ UNCHANGED <<conv, numCPU, keySchema, tbl, clock, diskOK, files, msgs, ui, cmds>>

\* Mutant: the loop ends on an empty page instead of a missing LastEvaluatedKey.
WorkerAppendUntilEmptyPage(t, s) ==
    /\ t \in TaskIds
    /\ s + 1 \in DOMAIN wk[t]
    /\ wk[t][s + 1].pc = "append"
    /\ task' = [task EXCEPT ![t].items = @ \o wk[t][s + 1].jsonItems, ![t].mu = 0]
    /\ LET w == wk[t][s + 1]
       IN  wk' = [wk EXCEPT ![t][s + 1] =
                    IF w.jsonItems = <<>>
                    THEN [w EXCEPT !.pc = "done", !.jsonItems = <<>>]
                    ELSE [w EXCEPT !.pc = "scan", !.jsonItems = <<>>, !.startKey = w.lek]]
    /\ UNCHANGED <<conv, numCPU, keySchema, tbl, clock, diskOK, files, msgs, ui, cmds>>

\* Mutant: startKey is declared outside the goroutines, so all workers share it.
WorkerAppendSharedKey(t, s) ==
    /\ t \in TaskIds
    /\ s + 1 \in DOMAIN wk[t]
    /\ wk[t][s + 1].pc = "append"
    /\ task' = [task EXCEPT ![t].items = @ \o wk[t][s + 1].jsonItems, ![t].mu = 0]
    /\ LET w == wk[t][s + 1]
       IN  wk' = [wk EXCEPT ![t] =
                    [i \in DOMAIN wk[t] |->
                        IF i = s + 1
                        THEN IF w.lek.isNil
                             THEN [w EXCEPT !.pc = "done", !.jsonItems = <<>>]
                             ELSE [w EXCEPT !.pc = "scan", !.jsonItems = <<>>, !.startKey = w.lek]
                        ELSE IF w.lek.isNil THEN wk[t][i]
                             ELSE [wk[t][i] EXCEPT !.startKey = w.lek]]]
    /\ UNCHANGED <<conv, numCPU, keySchema, tbl, clock, diskOK, files, msgs, ui, cmds>>

\* allItems = append(allItems, jsonItems...); mu.Unlock(); then the test of
\* LastEvaluatedKey that ends the worker or sets its next startKey.
WorkerAppend(t, s) ==
    /\ t \in TaskIds
    /\ s + 1 \in DOMAIN wk[t]
    /\ wk[t][s + 1].pc = "append"
    /\ task' = [task EXCEPT ![t].items = @ \o wk[t][s + 1].jsonItems, ![t].mu = 0]
    /\ LET w == wk[t][s + 1]
       IN  wk' = [wk EXCEPT ![t][s + 1] =
                    IF w.lek.isNil
                    THEN [w EXCEPT !.pc = "done", !.jsonItems = <<>>]
                    ELSE [w EXCEPT !.pc = "scan", !.jsonItems = <<>>, !.startKey = w.lek]]
    /\ UNCHANGED <<conv, numCPU, keySchema, tbl, clock, diskOK, files, msgs, ui, cmds>>

\* Mutant: the scan reports the error sent last.
ScanErrorLast(errChan) == IF errChan = <<>> THEN "" ELSE errChan[Len(errChan)]

\* Mutant: the error channel is closed and never read.
ScanErrorIgnored(errChan) == ""

\* What the scan makes of the closed error channel: err := <-errChan.
ScanError(errChan) == IF errChan = <<>> THEN "" ELSE Head(errChan)

\* Mutant: the accumulated rows are saved before the error channel is consulted.
FinishScanSaveFirst(t) ==
    /\ t \in TaskIds
    /\ task[t].pc = "launch"
    /\ Len(wk[t]) = task[t].numSegments
    /\ \A i \in DOMAIN wk[t] : wk[t][i].pc = "done"
    /\ SaveCacheBegin(t, task[t],
                      IF ScanError(task[t].errChan) # ""
                      THEN FetchErrorMsg(ScanError(task[t].errChan))
                      ELSE DataFetchedMsg(task[t].items))
    /\ UNCHANGED <<conv, numCPU, keySchema, tbl, clock, diskOK, files, ui, cmds>>

\* Mutant: the scan receives from errChan without waiting for the workers, so the
\* first error ends it.
FinishScanOnFirstError(t) ==
    /\ t \in TaskIds
    /\ task[t].pc = "launch"
    /\ Len(wk[t]) = task[t].numSegments
    /\ \/ task[t].errChan # <<>>
       \/ \A i \in DOMAIN wk[t] : wk[t][i].pc = "done"
    /\ IF ScanError(task[t].errChan) # ""
       THEN Return(t, task[t], FetchErrorMsg(ScanError(task[t].errChan)))
       ELSE SaveCacheBegin(t, task[t], DataFetchedMsg(task[t].items))
    /\ UNCHANGED <<conv, numCPU, keySchema, tbl, clock, diskOK, files, ui, cmds>>

\* wg.Wait(); close(errChan); the receive from errChan; then SaveCache or the error.
FinishScan(t) ==
    /\ t \in TaskIds
    /\ task[t].pc = "launch"
    /\ Len(wk[t]) = task[t].numSegments
    /\ \A i \in DOMAIN wk[t] : wk[t][i].pc = "done"
    /\ IF ScanError(task[t].errChan) # ""
       THEN Return(t, task[t], FetchErrorMsg(ScanError(task[t].errChan)))
       ELSE SaveCacheBegin(t, task[t], DataFetchedMsg(task[t].items))
    /\ UNCHANGED <<conv, numCPU, keySchema, tbl, clock, diskOK, files, ui, cmds>>

\* fetchAndCacheCollections: one turn of the paginator loop; after the last page,
\* SaveCache.
ListTablesPage(t) ==
    /\ t \in TaskIds
    /\ task[t].pc = "list"
    /\ \E page \in ListResponses(task[t].listed) :
          IF page.err # ""
          THEN Return(t, task[t], FetchErrorMsg(page.err))
          ELSE LET names == [i \in 1..Len(page.TableNames) |-> tableNameItem(PlainText(page.TableNames[i]))]
                   tk == [task[t] EXCEPT !.items = @ \o names,
                                         !.listed = @ + Len(page.TableNames)]
               IN  IF page.more
                   THEN /\ task' = [task EXCEPT ![t] = tk]
                        /\ UNCHANGED <<wk, msgs>>
                   ELSE SaveCacheBegin(t, tk, TablesFetchedMsg(tk.items))
    /\ UNCHANGED <<conv, numCPU, keySchema, tbl, clock, diskOK, files, ui, cmds>>

\* Mutant: an error of os.Create is returned to the event loop as a fetch error.
SaveCacheCreateFatal(t) ==
    /\ t \in TaskIds
    /\ task[t].pc = "create"
    /\ IF diskOK
       THEN /\ files' = [files EXCEPT ![PathOf(task[t])] = [exists |-> TRUE, content |-> <<>>]]
            /\ task' = [task EXCEPT ![t].pc = "encode", ![t].wrote = TRUE]
            /\ UNCHANGED <<wk, msgs>>
       ELSE /\ files' = files
            /\ Return(t, [task[t] EXCEPT !.saveErr = "create failed"],
                      FetchErrorMsg("create failed"))
    /\ UNCHANGED <<conv, numCPU, keySchema, tbl, clock, diskOK, ui, cmds>>

\* SaveCache: os.Create truncates the file (or creates it empty).  If it fails the
\* caller logs the error and returns the fetched items.
SaveCacheCreate(t) ==
    /\ t \in TaskIds
    /\ task[t].pc = "create"
    /\ IF diskOK
       THEN /\ files' = [files EXCEPT ![PathOf(task[t])] = [exists |-> TRUE, content |-> <<>>]]
            /\ task' = [task EXCEPT ![t].pc = "encode", ![t].wrote = TRUE]
            /\ UNCHANGED <<wk, msgs>>
       ELSE /\ files' = files
            /\ Return(t, [task[t] EXCEPT !.saveErr = "create failed"], task[t].result)
    /\ UNCHANGED <<conv, numCPU, keySchema, tbl, clock, diskOK, ui, cmds>>

\* SaveCache: Encode writes the document from the start of the file; the caller
\* then returns the fetched items.  A write that fails may have written any part of
\* the document; the caller logs the error and returns the fetched items.
SaveCacheEncode(t) ==
    /\ t \in TaskIds
    /\ task[t].pc = "encode"
    /\ LET path == PathOf(task[t])
           document == Encode(task[t].saving)
       IN  IF diskOK
           THEN LET content == WriteAt0(files[path].content, document)
                IN  /\ files' = [files EXCEPT ![path].content = content]
                    /\ Return(t, [task[t] EXCEPT !.afterSave = Decode(content)], task[t].result)
           ELSE \E n \in 0..(Len(document) - 1) :
                   LET content == WriteAt0(files[path].content, SubSeq(document, 1, n))
                   IN  /\ files' = [files EXCEPT ![path].content = content]
                       /\ Return(t, [task[t] EXCEPT !.afterSave = Decode(content),
                                                     !.saveErr = "write failed"],
                                 task[t].result)
    /\ UNCHANGED <<conv, numCPU, keySchema, tbl, clock, diskOK, ui, cmds>>

(***************************************************************************)
(* SpecScan: one run of fetchAndCacheTableData for table "A", called by    *)
(* fetchAllData after it found the cache record stale.                     *)
(***************************************************************************)
KeySchemas ==
    {<<[AttributeName |-> "pk", KeyType |-> "HASH"]>>,
     <<[AttributeName |-> "pk", KeyType |-> "HASH"], [AttributeName |-> "sk", KeyType |-> "RANGE"]>>,
     <<[AttributeName |-> "sk", KeyType |-> "RANGE"], [AttributeName |-> "pk", KeyType |-> "HASH"]>>,
     <<[AttributeName |-> "sk", KeyType |-> "RANGE"]>>,
     <<>>}

\* The cache files a previous run left at time 0: one row of a record since deleted,
\* and a collections list.
OldRows(t) == <<jsonMarshal(DynamoItemToMap([a \in {"v"} |-> StringAV(t)]).val)>>
OldFile(data) == [exists |-> TRUE, content |-> Encode(Cache(data, 0))]
OldFiles ==
    [p \in Paths |-> IF p = CollectionsCacheFilePath
                     THEN OldFile(<<PlainText(Tables[1])>>)
                     ELSE OldFile(OldRows(CHOOSE n \in TableNames : tableDataCacheFilePath(n) = p))]

UIIdle == <<>>

InitScan ==
    /\ numCPU \in 1..MaxCPU
    /\ keySchema \in KeySchemas
    /\ \E n \in 0..MaxRecords : \E bad \in SUBSET (1..n) :
          tbl = [t \in TableNames |-> IF t = "A" THEN [n |-> n, bad |-> bad]
                                      ELSE [n |-> 0, bad |-> {}]]
    /\ clock = CacheDuration
    /\ diskOK = TRUE
    /\ files = OldFiles
    /\ task = [t \in {1} |-> FetchTask("rows", "A", FALSE)]
    /\ wk = [t \in {1} |-> <<>>]
    /\ msgs = <<>>
    /\ ui = UIIdle
    /\ cmds = <<>>
    /\ conv = NoConv

Segments == 0..(SegmentCount(MaxCPU) - 1)
AllIds == 1..(MaxTasks + 1)

NextScan ==
    \/ \E t \in AllIds : DescribeTable(t)
    \/ \E t \in AllIds : LaunchWorker(t)
    \/ \E t \in AllIds, s \in Segments : WorkerScan(t, s)
    \/ \E t \in AllIds, s \in Segments : WorkerLock(t, s)
    \/ \E t \in AllIds, s \in Segments : WorkerAppend(t, s)
    \/ \E t \in AllIds : FinishScan(t)
    \/ \E t \in AllIds : SaveCacheCreate(t)
    \/ \E t \in AllIds : SaveCacheEncode(t)

SpecScan == InitScan /\ [][NextScan]_vars

(***************************************************************************)
(* SpecCache: fetch commands reading through the cache, their background   *)
(* refreshes, and the clock.  The cache directory is writable.             *)
(* SpecCacheRace is the same system with one more command and goroutine,   *)
(* so that a command runs while an earlier command's refresh is writing.   *)
(***************************************************************************)
MaxReads == 1     \* fetch commands run in one behaviour of SpecCache

FreeIds == {t \in TaskIds : task[t].kind = "none"}
\* Commands that may still start a background goroutine.
Undecided == {t \in TaskIds : task[t].pc \in {"open", "decode"}}
Running == {t \in TaskIds : task[t].kind # "none" /\ ~task[t].bg}

InitCacheOf(ids) ==
    /\ numCPU = 2
    /\ keySchema = <<[AttributeName |-> "pk", KeyType |-> "HASH"]>>
    /\ tbl = [t \in TableNames |-> [n |-> 1, bad |-> {}]]
    /\ clock = 0
    /\ diskOK = TRUE
    /\ files \in [Paths -> {NoFile}] \cup {OldFiles}
    /\ task = [t \in ids |-> NoTask]
    /\ wk = [t \in ids |-> <<>>]
    /\ msgs = <<>>
    /\ ui = UIIdle
    /\ cmds = <<>>
    /\ conv = NoConv

\* The runtime runs a command Update returned: fetchCollections() or
\* fetchAllData(tableName).  At most `reads` commands run in a behaviour, and a
\* goroutine id is kept free for each refresh a running command may start.
RunCommand(t, kind, name, reads) ==
    /\ t \in TaskIds
    /\ t \in FreeIds
    /\ \A u \in FreeIds : t <= u
    /\ Cardinality(FreeIds) >= Cardinality(Undecided) + 2
    /\ Len(msgs) + Cardinality(Running) < reads
    /\ task' = [task EXCEPT ![t] =
                  [NoTask EXCEPT !.kind = kind, !.tableName = name, !.pc = "open"]]
    /\ UNCHANGED <<conv, numCPU, keySchema, tbl, clock, diskOK, files, wk, msgs, ui, cmds>>

Tick ==
    /\ clock < MaxTime
    /\ clock' = clock + 1
    /\ UNCHANGED <<conv, numCPU, keySchema, tbl, diskOK, files, task, wk, msgs, ui, cmds>>

NextCache ==
    \/ Tick
    \/ \E t \in AllIds : RunCommand(t, "colls", "", MaxReads)
    \/ \E t \in AllIds, name \in TableNames : RunCommand(t, "rows", name, MaxReads)
    \/ \E t \in AllIds : LoadCacheOpen(t)
    \/ \E t \in AllIds : LoadCacheDecode(t)
    \/ \E t \in AllIds : ReturnCached(t)
    \/ \E t \in AllIds : ListTablesPage(t)
    \/ \E t \in AllIds : DescribeTable(t)
    \/ \E t \in AllIds : LaunchWorker(t)
    \/ \E t \in AllIds, s \in Segments : WorkerScan(t, s)
    \/ \E t \in AllIds, s \in Segments : WorkerLock(t, s)
    \/ \E t \in AllIds, s \in Segments : WorkerAppend(t, s)
    \/ \E t \in AllIds : FinishScan(t)
    \/ \E t \in AllIds : SaveCacheCreate(t)
    \/ \E t \in AllIds : SaveCacheEncode(t)

SpecCache == InitCacheOf(1..MaxTasks) /\ [][NextCache]_vars

NextCacheRace ==
    \/ Tick
    \/ \E t \in AllIds : RunCommand(t, "colls", "", MaxReads + 1)
    \/ \E t \in AllIds, name \in TableNames : RunCommand(t, "rows", name, MaxReads + 1)
    \/ \E t \in AllIds : LoadCacheOpen(t)
    \/ \E t \in AllIds : LoadCacheDecode(t)
    \/ \E t \in AllIds : ReturnCached(t)
    \/ \E t \in AllIds : ListTablesPage(t)
    \/ \E t \in AllIds : DescribeTable(t)
    \/ \E t \in AllIds : LaunchWorker(t)
    \/ \E t \in AllIds, s \in Segments : WorkerScan(t, s)
    \/ \E t \in AllIds, s \in Segments : WorkerLock(t, s)
    \/ \E t \in AllIds, s \in Segments : WorkerAppend(t, s)
    \/ \E t \in AllIds : FinishScan(t)
    \/ \E t \in AllIds : SaveCacheCreate(t)
    \/ \E t \in AllIds : SaveCacheEncode(t)

SpecCacheRace == InitCacheOf(1..(MaxTasks + 1)) /\ [][NextCacheRace]_vars

(***************************************************************************)
(* SpecUI: the bubbletea event loop around MainModel.Update.  Commands that *)
(* Update returns run concurrently, each in a goroutine; the message one   *)
(* returns reaches Update in a later step of the event loop, and the other *)
(* commands, key presses and window resizes come in between.  A fetch      *)
(* command reads its cache file Read by Read, serves a fresh record and    *)
(* starts the background refresh, or fetches and saves the cache file; the *)
(* calls of the service made by a fetch are one step here, ending with one *)
(* of the messages the fetch tasks above can return.                       *)
(* Not modelled: the spinner's tick and frame, the viewport's scroll       *)
(* offset, the widths and heights a tea.WindowSizeMsg sets, the lists' own *)
(* help and paging, and text typed into a list's filter (the filter text   *)
(* stays empty).                                                           *)
(***************************************************************************)
MaxFetches == 2   \* fetchAllData commands issued in one behaviour of SpecUI

KeyMsg(k) == [type |-> "KeyMsg", key |-> k]
TablesFetchStartedMsg == Msg("TablesFetchStartedMsg", <<>>, "")
Matches(msg, binding) == msg.type = "KeyMsg" /\ msg.key \in binding

\* var keys = keyMap{...}, tableDataKeys and viewRowKeys
keys ==
    [Data |-> {"d"}, Collections |-> {"c"}, SelectCollection |-> {"enter"},
     Up |-> {"up", "k"}, Down |-> {"down", "j"}, Help |-> {"?"},
     ViewMode |-> {"esc"}, Quit |-> {"q", "ctrl+c"}]
tableDataKeys == [SelectRow |-> {"enter"}]
\* The bindings of a bubbles list that change the state kept here, with
\* l.KeyMap.Quit.SetKeys("q", "ctrl-c").
listKeyMap ==
    [CursorUp |-> {"up", "k"}, CursorDown |-> {"down", "j"}, Filter |-> {"/"},
     AcceptWhileFiltering |-> {"enter"}, Quit |-> {"q", "ctrl-c"}]

\* Commands, each with the position of the goroutine that runs it (pc), the bytes
\* its JSON decoder has buffered (buf) and the message it holds (msg): the one it
\* fetched, then the one it has returned to the runtime (pc = "return").
Cmd(c, name) ==
    [cmd |-> c, tableName |-> name, pc |-> "read", buf |-> <<>>, msg |-> Msg("", <<>>, "")]
QuitCmd == Cmd("Quit", PlainText(""))
\* func() tea.Msg { return TablesFetchStartedMsg{} }
startCollectionsFetch ==
    [Cmd("startCollectionsFetch", PlainText("")) EXCEPT !.pc = "return",
                                                        !.msg = TablesFetchStartedMsg]
fetchCollections == Cmd("fetchCollections", PlainText(""))
fetchAllData(tableName) == Cmd("fetchAllData", tableName)

\* list.New(items, delegate, 10, 10) with SetShowHelp(true): a bubbles list.
NewList ==
    [items |-> <<>>, filteredItems |-> <<>>, index |-> 0,
     filterState |-> "Unfiltered", showHelp |-> TRUE]
VisibleItems(l) == IF l.filterState # "Unfiltered" THEN l.filteredItems ELSE l.items
SelectedItem(l) ==
    IF l.index < Len(VisibleItems(l))
    THEN [ok |-> TRUE, item |-> VisibleItems(l)[l.index + 1]]
    ELSE [ok |-> FALSE, item |-> tableNameItem(PlainText(""))]
\* list.SetItems: the cursor stays; a list that is filtering drops its matches
\* until the filter runs again.
SetItems(l, items) == [l EXCEPT !.items = items, !.filteredItems = <<>>]
resetFiltering(l) == [l EXCEPT !.filterState = "Unfiltered", !.filteredItems = <<>>]
CursorDown(l) ==
    LET n == Len(VisibleItems(l))
        c == l.index + 1
    IN  [l EXCEPT !.index = IF c < n THEN c ELSE IF c > n THEN 0 ELSE n - 1]
CursorUp(l) == [l EXCEPT !.index = IF @ > 0 THEN @ - 1 ELSE 0]

\* list.Update(msg): the new list and whether it returned tea.Quit.
ListUpdate(l, msg) ==
    IF msg.type # "KeyMsg"
    THEN [list |-> l, quit |-> FALSE]
    ELSE IF l.filterState = "Filtering"
    THEN [list |-> IF Matches(msg, listKeyMap.AcceptWhileFiltering) /\ Len(l.items) # 0
                   THEN resetFiltering(l) ELSE l,
          quit |-> FALSE]
    ELSE IF Matches(msg, listKeyMap.Quit) THEN [list |-> l, quit |-> TRUE]
    ELSE [list |-> IF Matches(msg, listKeyMap.CursorDown) THEN CursorDown(l)
                   ELSE IF Matches(msg, listKeyMap.CursorUp) THEN CursorUp(l)
                   ELSE IF Matches(msg, listKeyMap.Filter) /\ Len(l.items) # 0
                   THEN [l EXCEPT !.filterState = "Filtering", !.filteredItems = l.items,
                                  !.index = 0]
                   ELSE l,
          quit |-> FALSE]

\* func New() MainModel, with TableDataModel{}.New(client)
New ==
    [state |-> "ViewingCollections", loading |-> FALSE, showAll |-> FALSE,
     selectedTable |-> PlainText(""), selectedRow |-> PlainText(""),
     collectionsList |-> NewList, dataList |-> NewList, viewport |-> PlainText("")]

\* RenderJSONWithGlamour: text that is not JSON fails json.Unmarshal; JSON is
\* pretty-printed and rendered as a styled markdown code block.
RenderJSONWithGlamour(rawJSON) ==
    IF rawJSON.j = "text"
    THEN [out |-> PlainText(""), err |-> "failed to unmarshal JSON"]
    ELSE [out |-> [j |-> "glamour", v |-> rawJSON], err |-> ""]
\* dataContent, which Update puts into the viewport for the selected row.
DataContent(selectedRow) ==
    IF RenderJSONWithGlamour(selectedRow).err # ""
    THEN PlainText("Could not render row.")
    ELSE RenderJSONWithGlamour(selectedRow).out

EditMode(m) == m.state = "ViewingCollections" \/ m.state = "ViewingData"
UpdateResult(m, c) == [m |-> m, cmds |-> c]

\* Mutant: the escape key in ViewingRow opens the view mode, as it does in the lists.
UpdateViewingRowEscToViewMode(m, msg, c) ==
    IF m.state # "ViewingRow"
    THEN UpdateResult(m, c)
    ELSE LET m1 == [m EXCEPT !.collectionsList.showHelp = FALSE]
         IN  IF Matches(msg, keys.ViewMode)
             THEN UpdateResult([m1 EXCEPT !.state = "ViewMode"], <<>>)
             ELSE IF Matches(msg, keys.Down) \/ Matches(msg, keys.Up)
             THEN UpdateResult(m1, <<>>)
             ELSE UpdateResult(m1, c)

\* Update, the block `if m.state == ViewingRow`, and the final return.
UpdateViewingRow(m, msg, c) ==
    IF m.state # "ViewingRow"
    THEN UpdateResult(m, c)
    ELSE LET m1 == [m EXCEPT !.collectionsList.showHelp = FALSE]
         IN  IF Matches(msg, keys.ViewMode)
             THEN UpdateResult([m1 EXCEPT !.state = "ViewingData"], <<>>)
             ELSE IF Matches(msg, keys.Down) \/ Matches(msg, keys.Up)
             THEN UpdateResult(m1, <<>>)
             ELSE UpdateResult(m1, c)

\* Update, the block `if m.state == ViewingData`.
UpdateViewingData(m, msg, c) ==
    IF m.state # "ViewingData"
    THEN UpdateViewingRow(m, msg, c)
    ELSE LET m1 == [m EXCEPT !.collectionsList.showHelp = FALSE]
             sel == SelectedItem(m1.dataList)
             m2 == IF /\ Matches(msg, tableDataKeys.SelectRow)
                      /\ m1.dataList.filterState # "Filtering"
                      /\ sel.ok
                   THEN [m1 EXCEPT !.selectedRow = FilterValue(sel.item),
                                   !.viewport = DataContent(FilterValue(sel.item)),
                                   !.state = "ViewingRow"]
                   ELSE m1
             lu == ListUpdate(m2.dataList, msg)
         IN  IF Matches(msg, keys.ViewMode)
             THEN UpdateResult([m1 EXCEPT !.state = "ViewMode"], <<>>)
             ELSE UpdateViewingRow([m2 EXCEPT !.dataList = lu.list], msg,
                                   IF lu.quit THEN Append(c, QuitCmd) ELSE c)

\* Mutant: the select key is not held back while the collections list is filtering.
UpdateSelectsWhileFiltering(m, msg, c) ==
    IF m.state # "ViewingCollections"
    THEN UpdateViewingData(m, msg, c)
    ELSE LET sel == SelectedItem(m.collectionsList)
             pressed == Matches(msg, keys.SelectCollection)
             m1 == IF pressed /\ sel.ok
                   THEN [m EXCEPT !.loading = TRUE, !.selectedTable = FilterValue(sel.item)]
                   ELSE m
             c1 == IF pressed THEN Append(c, fetchAllData(m1.selectedTable)) ELSE c
             lu == ListUpdate(m1.collectionsList, msg)
         IN  IF Matches(msg, keys.ViewMode)
             THEN UpdateResult([m EXCEPT !.state = "ViewMode"], <<>>)
             ELSE UpdateViewingData([m1 EXCEPT !.collectionsList = lu.list], msg,
                                    IF lu.quit THEN Append(c1, QuitCmd) ELSE c1)

\* Mutant: selecting a collection switches to the data view at once.
UpdateViewingCollectionsEager(m, msg, c) ==
    IF m.state # "ViewingCollections"
    THEN UpdateViewingData(m, msg, c)
    ELSE LET sel == SelectedItem(m.collectionsList)
             pressed == /\ Matches(msg, keys.SelectCollection)
                        /\ m.collectionsList.filterState # "Filtering"
             m1 == IF pressed /\ sel.ok
                   THEN [m EXCEPT !.loading = TRUE, !.selectedTable = FilterValue(sel.item),
                                  !.state = "ViewingData"]
                   ELSE m
             c1 == IF pressed THEN Append(c, fetchAllData(m1.selectedTable)) ELSE c
             lu == ListUpdate(m1.collectionsList, msg)
         IN  IF Matches(msg, keys.ViewMode)
             THEN UpdateResult([m EXCEPT !.state = "ViewMode"], <<>>)
             ELSE UpdateViewingData([m1 EXCEPT !.collectionsList = lu.list], msg,
                                    IF lu.quit THEN Append(c1, QuitCmd) ELSE c1)

\* Update, the block `if m.state == ViewingCollections`: the fetchAllData command
\* is appended whether or not an item is selected.
UpdateViewingCollections(m, msg, c) ==
    IF m.state # "ViewingCollections"
    THEN UpdateViewingData(m, msg, c)
    ELSE LET sel == SelectedItem(m.collectionsList)
             pressed == /\ Matches(msg, keys.SelectCollection)
                        /\ m.collectionsList.filterState # "Filtering"
             m1 == IF pressed /\ sel.ok
                   THEN [m EXCEPT !.loading = TRUE, !.selectedTable = FilterValue(sel.item)]
                   ELSE m
             c1 == IF pressed THEN Append(c, fetchAllData(m1.selectedTable)) ELSE c
             lu == ListUpdate(m1.collectionsList, msg)
         IN  IF Matches(msg, keys.ViewMode)
             THEN UpdateResult([m EXCEPT !.state = "ViewMode"], <<>>)
             ELSE UpdateViewingData([m1 EXCEPT !.collectionsList = lu.list], msg,
                                    IF lu.quit THEN Append(c1, QuitCmd) ELSE c1)

\* Update, the block `if m.state == ViewMode`.
UpdateViewMode(m, msg, c) ==
    IF m.state = "ViewMode" /\ Matches(msg, keys.Data)
    THEN UpdateResult([m EXCEPT !.state = "ViewingData"], <<>>)
    ELSE IF m.state = "ViewMode" /\ Matches(msg, keys.Collections)
    THEN UpdateResult([m EXCEPT !.state = "ViewingCollections",
                                !.collectionsList.showHelp = TRUE], <<>>)
    ELSE UpdateViewingCollections(m, msg, c)

\* Update, the block `if !m.EditMode()`.
UpdateNotEditMode(m, msg, c) ==
    IF ~EditMode(m) /\ Matches(msg, keys.Help)
    THEN UpdateViewMode([m EXCEPT !.showAll = ~@], msg, c)
    ELSE IF ~EditMode(m) /\ Matches(msg, keys.Quit)
    THEN UpdateResult(m, <<QuitCmd>>)
    ELSE UpdateViewMode(m, msg, c)

\* Mutant: the case for TablesFetchedMsg does not clear loading.
UpdateKeepsLoading(m, msg) ==
    IF msg.type = "TablesFetchedMsg"
    THEN UpdateNotEditMode([m EXCEPT !.collectionsList = SetItems(@, msg.items)], msg, <<>>)
    ELSE IF msg.type = "TablesFetchStartedMsg"
    THEN UpdateNotEditMode([m EXCEPT !.loading = TRUE], msg, <<fetchCollections>>)
    ELSE IF msg.type = "DataFetchedMsg"
    THEN UpdateNotEditMode([m EXCEPT !.loading = FALSE,
                                     !.dataList = SetItems(@, msg.items),
                                     !.state = "ViewingData"], msg, <<>>)
    ELSE IF msg.type = "WindowSizeMsg"
    THEN UpdateNotEditMode([m EXCEPT !.viewport = PlainText("")], msg, <<>>)
    ELSE UpdateNotEditMode(m, msg, <<>>)

\* func (m MainModel) Update(msg tea.Msg) (tea.Model, tea.Cmd): the switch on the
\* message type, which has no case for FetchErrorMsg, then the blocks above.  On
\* tea.WindowSizeMsg the viewport is replaced by a new, empty one.
Update(m, msg) ==
    IF msg.type = "TablesFetchedMsg"
    THEN UpdateNotEditMode([m EXCEPT !.collectionsList = SetItems(@, msg.items),
                                     !.loading = FALSE], msg, <<>>)
    ELSE IF msg.type = "TablesFetchStartedMsg"
    THEN UpdateNotEditMode([m EXCEPT !.loading = TRUE], msg, <<fetchCollections>>)
    ELSE IF msg.type = "DataFetchedMsg"
    THEN UpdateNotEditMode([m EXCEPT !.loading = FALSE,
                                     !.dataList = SetItems(@, msg.items),
                                     !.state = "ViewingData"], msg, <<>>)
    ELSE IF msg.type = "WindowSizeMsg"
    THEN UpdateNotEditMode([m EXCEPT !.viewport = PlainText("")], msg, <<>>)
    ELSE UpdateNotEditMode(m, msg, <<>>)

\* The rows a fetch of table t returns.
TableRows(t) ==
    [i \in 1..tbl[t].n |-> tableDataRow(jsonMarshal(DynamoItemToMap(Item(t, i)).val))]

\* The messages fetchAndCacheCollections / fetchAndCacheTableData can end with, for a
\* fetch command or the background refresh it started.
CommandResults(c) ==
    IF c.cmd \in {"fetchCollections", "refreshCacheInBackground"}
    THEN {TablesFetchedMsg([i \in 1..Len(Tables) |-> tableNameItem(PlainText(Tables[i]))]),
          FetchErrorMsg("list tables failed")}
    ELSE IF c.tableName.v \in TableNames
    THEN {DataFetchedMsg(TableRows(c.tableName.v)), FetchErrorMsg("scan failed")}
    ELSE {FetchErrorMsg("describe table failed")}

\* CollectionsCacheFilePath or tableDataCacheFilePath(tableName), the file of a command.
CachePathOf(c) ==
    IF c.cmd \in {"fetchCollections", "refreshCacheInBackground"}
    THEN CollectionsCacheFilePath
    ELSE tableDataCacheFilePath(c.tableName.v)

Keys == {"enter", "esc", "d", "c", "?", "q", "down", "up", "/"}
RemoveAt(q, i) == SubSeq(q, 1, i - 1) \o SubSeq(q, i + 1, Len(q))

\* The event loop hands msg to Update, takes the new model and starts the commands
\* it returned; tea.Quit ends the program.  ui.log records each fetchAllData command
\* as it is issued and (in `done`) as it completes.
Handle(msg, rest, done) ==
    \E r \in {Update(ui.m, msg)} :
       \E started \in {SelectSeq(r.cmds, LAMBDA c : c.cmd # "Quit")} :
          \E fetches \in {SelectSeq(started, LAMBDA c : c.cmd = "fetchAllData")} :
        /\ Cardinality({i \in DOMAIN ui.log : ui.log[i].e = "issued"}) + Len(fetches)
              <= MaxFetches
        /\ ui' = [m |-> r.m,
                  quit |-> (Len(started) # Len(r.cmds)),
                  last |-> msg.type,
                  items |-> IF msg.type \in {"TablesFetchedMsg", "DataFetchedMsg"}
                            THEN msg.items ELSE <<>>,
                  from |-> ui.m.state,
                  held |-> (/\ Matches(msg, keys.SelectCollection)
                            /\ ui.m.state = "ViewingCollections"
                            /\ ui.m.collectionsList.filterState = "Filtering"),
                  log |-> ui.log \o done \o
                          [i \in 1..Len(fetches) |->
                              [e |-> "issued", cmd |-> fetches[i].cmd,
                               tableName |-> fetches[i].tableName, type |-> "",
                               items |-> <<>>]]]
        /\ cmds' = rest \o started

\* The user presses a key.  While the list in focus is filtering, only the keys
\* that leave the filter are pressed.
KeyPress(k) ==
    /\ ~ui.quit
    /\ (ui.m.state = "ViewingCollections" /\ ui.m.collectionsList.filterState = "Filtering")
          => k \in {"enter", "esc"}
    /\ (ui.m.state = "ViewingData" /\ ui.m.dataList.filterState = "Filtering")
          => k \in {"enter", "esc"}
    /\ Handle(KeyMsg(k), cmds, <<>>)
    /\ UNCHANGED scanVars

\* The terminal reports its size: tea.WindowSizeMsg.
Resize ==
    /\ ~ui.quit
    /\ Handle(Msg("WindowSizeMsg", <<>>, ""), cmds, <<>>)
    /\ UNCHANGED scanVars

\* The runtime hands the message command i returned to Update: the event loop
\* receives it some time after the command's goroutine has returned, in any order
\* with the messages of the other commands, the key presses and the resizes.
Complete(i) ==
    /\ ~ui.quit
    /\ i \in DOMAIN cmds
    /\ cmds[i].pc = "return"
    /\ \E msg \in {cmds[i].msg} :
          Handle(msg, RemoveAt(cmds, i),
                 IF cmds[i].cmd = "fetchAllData"
                 THEN <<[e |-> "completed", cmd |-> cmds[i].cmd,
                         tableName |-> cmds[i].tableName,
                         type |-> msg.type, items |-> msg.items]>>
                 ELSE <<>>)
    /\ UNCHANGED scanVars

\* fetchCollections / fetchAllData up to the call of the synchronous fetch:
\* tools.LoadCache, one Read of the file per step as in LoadCacheDecode (os.Open
\* together with the first Read), then the freshness test.  With a fresh record
\* the `go` statement starts the refresh and the command returns the cached list.
fetchLoadCache(i) ==
    /\ ~ui.quit
    /\ i \in DOMAIN cmds
    /\ cmds[i].cmd \in {"fetchCollections", "fetchAllData"}
    /\ cmds[i].pc = "read"
    /\ LET c == cmds[i]
           content == IF CachePathOf(c) \in Paths THEN files[CachePathOf(c)].content ELSE <<>>
           read == SubSeq(content, Len(c.buf) + 1, Min(Len(content), Len(c.buf) + ReadSize))
       IN  \E buf \in {c.buf \o read} : \E cache \in {Decode(buf)} :
              IF readValue(buf) = "more" /\ read # <<>>
              THEN cmds' = [cmds EXCEPT ![i].buf = buf]
              ELSE IF Fresh(cache, clock)
              THEN \E msg \in {IF c.cmd = "fetchCollections"
                                THEN TablesFetchedMsg([k \in 1..Len(cache.Data) |->
                                                          tableNameItem(cache.Data[k])])
                                ELSE DataFetchedMsg([k \in 1..Len(cache.Data) |->
                                                        tableDataRow(cache.Data[k])])} :
                      cmds' = [cmds EXCEPT ![i].pc = "return", ![i].buf = <<>>,
                                           ![i].msg = msg] \o
                              <<[c EXCEPT !.cmd = IF c.cmd = "fetchCollections"
                                                  THEN "refreshCacheInBackground"
                                                  ELSE "refreshTableDataCacheInBackground",
                                          !.pc = "fetch", !.buf = <<>>]>>
              ELSE cmds' = [cmds EXCEPT ![i].pc = "fetch", ![i].buf = <<>>]
    /\ UNCHANGED <<ui, scanVars>>

\* fetchAndCacheCollections / fetchAndCacheTableData, called by a command or as a
\* background refresh, up to os.Create in tools.SaveCache.  A command returns the
\* error of a failed fetch; a refresh ends with it.
fetchAndCache(i) ==
    /\ ~ui.quit
    /\ i \in DOMAIN cmds
    /\ cmds[i].pc = "fetch"
    /\ \E msg \in CommandResults(cmds[i]) :
          IF msg.type = "FetchErrorMsg"
          THEN /\ cmds' = IF cmds[i].cmd \in {"fetchCollections", "fetchAllData"}
                          THEN [cmds EXCEPT ![i].pc = "return", ![i].msg = msg]
                          ELSE RemoveAt(cmds, i)
               /\ UNCHANGED files
          ELSE /\ files' = [files EXCEPT ![CachePathOf(cmds[i])] =
                                [exists |-> TRUE, content |-> <<>>]]
               /\ cmds' = [cmds EXCEPT ![i].pc = "encode", ![i].msg = msg]
    /\ UNCHANGED <<ui, conv, numCPU, keySchema, tbl, clock, diskOK, task, wk, msgs>>

\* tools.SaveCache from json.NewEncoder(file).Encode(cache) on, and the return of the
\* fetched items: a command returns them as its message, a refresh logs and ends.
fetchSaveCache(i) ==
    /\ ~ui.quit
    /\ i \in DOMAIN cmds
    /\ cmds[i].pc = "encode"
    /\ \E document \in {Encode(Cache([k \in 1..Len(cmds[i].msg.items) |->
                                         FilterValue(cmds[i].msg.items[k])], clock))} :
          files' = [files EXCEPT ![CachePathOf(cmds[i])].content =
                                     WriteAt0(files[CachePathOf(cmds[i])].content, document)]
    /\ cmds' = IF cmds[i].cmd \in {"fetchCollections", "fetchAllData"}
               THEN [cmds EXCEPT ![i].pc = "return"]
               ELSE RemoveAt(cmds, i)
    /\ UNCHANGED <<ui, conv, numCPU, keySchema, tbl, clock, diskOK, task, wk, msgs>>

\* tea.NewProgram(New()).Run(): the model New() and the command Init() returns.
InitUI ==
    /\ numCPU = 2
    /\ keySchema = <<[AttributeName |-> "pk", KeyType |-> "HASH"]>>
    /\ tbl = [t \in TableNames |-> [n |-> IF t = Tables[1] THEN 2 ELSE 1, bad |-> {}]]
    /\ clock \in {0, CacheDuration}
    /\ diskOK = TRUE
    /\ files = OldFiles
    /\ task = [t \in {} |-> NoTask]
    /\ wk = [t \in {} |-> <<>>]
    /\ msgs = <<>>
    /\ ui = [m |-> New, quit |-> FALSE, last |-> "none", items |-> <<>>, from |-> "none",
             held |-> FALSE,
             log |-> <<>>]
    /\ cmds = <<startCollectionsFetch>>
    /\ conv = NoConv

NextUI ==
    \/ \E k \in Keys : KeyPress(k)
    \/ Resize
    \/ \E i \in 1..(2 * (MaxFetches + 1)) : Complete(i)
    \/ \E i \in 1..(2 * (MaxFetches + 1)) : fetchLoadCache(i)
    \/ \E i \in 1..(2 * (MaxFetches + 1)) : fetchAndCache(i)
    \/ \E i \in 1..(2 * (MaxFetches + 1)) : fetchSaveCache(i)

SpecUI == InitUI /\ [][NextUI]_vars

(***************************************************************************)
(* SpecWriters: two fetches of table "A" (a superseded and a superseding   *)
(* one) whose scans have finished, from wg.Wait() on.  The table changed   *)
(* between the two scans, so they hold different numbers of rows.          *)
(***************************************************************************)
\* The first k rows of table t as a scan returns them.
RowsUpTo(t, k) == [i \in 1..k |-> tableDataRow(jsonMarshal(DynamoItemToMap(Item(t, i)).val))]

\* fetchAndCacheTableData at wg.Wait(), its one worker done, holding k rows.
ScannedTask(k) ==
    [FetchTask("rows", Tables[1], FALSE) EXCEPT !.pc = "launch", !.numSegments = 1,
                                               !.partitionKey = "pk", !.items = RowsUpTo(Tables[1], k)]

InitWriters ==
    /\ numCPU = 2
    /\ keySchema = <<[AttributeName |-> "pk", KeyType |-> "HASH"]>>
    /\ tbl = [t \in TableNames |-> [n |-> MaxRecords, bad |-> {}]]
    /\ clock = CacheDuration
    /\ diskOK = TRUE
    /\ files = OldFiles
    /\ \E k1, k2 \in 0..MaxRecords : task = [t \in 1..2 |-> ScannedTask(IF t = 1 THEN k1 ELSE k2)]
    /\ wk = [t \in 1..2 |-> <<[NewWorker EXCEPT !.pc = "done", !.reads = 1]>>]
    /\ msgs = <<>>
    /\ ui = UIIdle
    /\ cmds = <<>>
    /\ conv = NoConv

NextWriters ==
    \/ Tick
    \/ \E t \in AllIds : FinishScan(t)
    \/ \E t \in AllIds : SaveCacheCreate(t)
    \/ \E t \in AllIds : SaveCacheEncode(t)

SpecWriters == InitWriters /\ [][NextWriters]_vars

(***************************************************************************)
(* SpecToken: a segment worker sanitizing continuation tokens of any shape. *)
(* The worker takes a token as startKey, builds its ScanInput, and takes   *)
(* the token it sent back as the next startKey.                            *)
(***************************************************************************)
MaxKeyValue == 2   \* token attributes hold the numbers 1..MaxKeyValue

TokenAttrs == {"pk", "sk", "x", "y"}
\* nil, and every map from some of TokenAttrs to values.
RawTokens ==
    {NilMap} \cup
    UNION {{MakeMap(f) : f \in [S -> {NumberAV(v) : v \in 1..MaxKeyValue}]} : S \in SUBSET TokenAttrs}

\* fetchAndCacheTableData after extractPrimaryKeyAttributes, one worker running.
TokenTask(ks) ==
    [FetchTask("rows", Tables[1], FALSE) EXCEPT
        !.pc = "launch", !.numSegments = 1,
        !.partitionKey = extractPrimaryKeyAttributes(ks).partitionKey,
        !.sortKey = extractPrimaryKeyAttributes(ks).sortKey]

InitToken ==
    /\ numCPU = 2
    /\ keySchema \in {ks \in KeySchemas : ~extractPrimaryKeyAttributes(ks).err}
    /\ tbl = [t \in TableNames |-> [n |-> 0, bad |-> {}]]
    /\ clock = CacheDuration
    /\ diskOK = TRUE
    /\ files = OldFiles
    /\ task = [t \in {1} |-> TokenTask(keySchema)]
    /\ \E raw \in RawTokens :
          wk = [t \in {1} |-> <<[NewWorker EXCEPT !.pc = "token", !.lek = raw, !.startKey = raw]>>]
    /\ msgs = <<>>
    /\ ui = UIIdle
    /\ cmds = <<>>
    /\ conv = NoConv

\* input := &dynamodb.ScanInput{..., ExclusiveStartKey: validateExclusiveStartKey(...)}
PrepareInput(t, s) ==
    /\ t \in TaskIds
    /\ s + 1 \in DOMAIN wk[t]
    /\ wk[t][s + 1].pc = "token"
    /\ LET w == wk[t][s + 1]
       IN  wk' = [wk EXCEPT ![t][s + 1] =
                     [w EXCEPT !.pc = "input", !.reads = w.reads + 1,
                               !.input = ScanInput(task[t], w.startKey, s)]]
    /\ UNCHANGED <<conv, numCPU, keySchema, tbl, clock, diskOK, files, task, msgs, ui, cmds>>

\* The service hands back the token it got as LastEvaluatedKey: on nil the worker's
\* loop ends (break), otherwise startKey = output.LastEvaluatedKey.
EchoToken(t, s) ==
    /\ t \in TaskIds
    /\ s + 1 \in DOMAIN wk[t]
    /\ wk[t][s + 1].pc = "input"
    /\ wk[t][s + 1].reads < 2
    /\ LET w == wk[t][s + 1]
       IN  wk' = [wk EXCEPT ![t][s + 1] =
                     IF w.input.ExclusiveStartKey.isNil
                     THEN [w EXCEPT !.pc = "done"]
                     ELSE [w EXCEPT !.pc = "token", !.startKey = w.input.ExclusiveStartKey]]
    /\ UNCHANGED <<conv, numCPU, keySchema, tbl, clock, diskOK, files, task, msgs, ui, cmds>>

NextToken ==
    \/ \E t \in AllIds, s \in Segments : PrepareInput(t, s)
    \/ \E t \in AllIds, s \in Segments : EchoToken(t, s)

SpecToken == InitToken /\ [][NextToken]_vars

(***************************************************************************)
(* Properties of the scan (SpecScan).                                      *)
(***************************************************************************)
WorkerFailedIn(ws) == \E i \in DOMAIN ws : ws[i].failed
RowSet(items) == {items[i] : i \in DOMAIN items}
Contents(items) == [i \in DOMAIN items |-> FilterValue(items[i])]
ExpectedRows(t) ==
    {tableDataRow(jsonMarshal(DynamoItemToMap(Item(t, i)).val)) : i \in 1..tbl[t].n}

\* C1: all-or-nothing scan.  If a page read of any segment worker returned an error,
\* the scan never reaches SaveCache, and the message it returns is a FetchErrorMsg
\* that carries no rows, whatever the other workers accumulated.
C1_AllOrNothing ==
    /\ \A t \in TaskIds : WorkerFailedIn(wk[t]) => task[t].pc \notin {"create", "encode"}
    /\ \A k \in DOMAIN msgs :
          WorkerFailedIn(msgs[k].workers) =>
             /\ msgs[k].msg.type = "FetchErrorMsg"
             /\ msgs[k].msg.items = <<>>

\* A scan returned FetchErrorMsg after one worker failed while another worker had
\* scanned its segment to exhaustion and appended rows.
C1_Witness ==
    \E k \in DOMAIN msgs :
        /\ msgs[k].msg.type = "FetchErrorMsg"
        /\ msgs[k].tk.items # <<>>
        /\ \E i, j \in DOMAIN msgs[k].workers :
              /\ msgs[k].workers[i].failed
              /\ ~msgs[k].workers[j].failed
              /\ msgs[k].workers[j].pc = "done"
              /\ msgs[k].workers[j].reads >= 1

\* C2: the segment count is at least 1 for every number of logical CPUs, so a scan
\* that returns DataFetchedMsg has issued at least one page read.
C2_SegmentCountAtLeastOne ==
    /\ \A t \in TaskIds : task[t].pc \in {"launch", "create", "encode"} => task[t].numSegments >= 1
    /\ \A k \in DOMAIN msgs :
          (msgs[k].msg.type = "DataFetchedMsg" /\ msgs[k].tk.fetched) =>
             \E i \in DOMAIN msgs[k].workers : msgs[k].workers[i].reads >= 1

\* C3: completeness.  With N >= 1 segments and every record convertible, the rows of a
\* successful scan are the table's K records, each exactly once.
C3_Completeness ==
    \A k \in DOMAIN msgs :
        LET e == msgs[k]
        IN  (/\ e.msg.type = "DataFetchedMsg"
             /\ e.tk.fetched
             /\ e.tk.numSegments >= 1
             /\ tbl[e.tk.tableName].bad = {})
            => /\ Len(e.msg.items) = tbl[e.tk.tableName].n
               /\ RowSet(e.msg.items) = ExpectedRows(e.tk.tableName)

\* A successful scan of 3 convertible records over at least 2 segments in which a
\* worker needed more than one page.
C3_Witness ==
    \E k \in DOMAIN msgs :
        LET e == msgs[k]
        IN  /\ e.msg.type = "DataFetchedMsg"
            /\ e.tk.numSegments >= 2
            /\ tbl[e.tk.tableName].bad = {}
            /\ tbl[e.tk.tableName].n >= 3
            /\ Len(e.msg.items) >= 3
            /\ \E i \in DOMAIN e.workers : e.workers[i].reads >= 2

(***************************************************************************)
(* Properties of the cache layer (SpecCache, SpecCacheRace).               *)
(***************************************************************************)
SuccessType(kind) == IF kind = "colls" THEN "TablesFetchedMsg" ELSE "DataFetchedMsg"
\* The age time.Since(cache.Updated) the command saw when it loaded the record.
AgeSeen(tk) == tk.readAt - tk.cache.Updated

\* C4: cache freshness, for fetchCollections and fetchAllData alike.  A command that
\* loaded a record of age d < CacheDuration returns the record's rows without a
\* synchronous fetch.  With no readable record, or one of age d >= CacheDuration
\* (d = CacheDuration included), it runs the synchronous fetch, and when that
\* succeeds the rows it returns are the rows of the record the file then holds.
C4_CacheFreshness ==
    \A k \in DOMAIN msgs :
        LET e == msgs[k]
        IN  IF e.tk.cache.ok /\ AgeSeen(e.tk) < CacheDuration
            THEN /\ ~e.tk.fetched
                 /\ e.msg.type = SuccessType(e.tk.kind)
                 /\ Contents(e.msg.items) = e.tk.cache.Data
            ELSE /\ e.tk.fetched
                 /\ e.msg.type # "FetchErrorMsg" =>
                       /\ e.msg.type = SuccessType(e.tk.kind)
                       /\ e.tk.afterSave = Cache(Contents(e.msg.items), e.tk.saving.Updated)
                       /\ e.tk.saving.Updated >= e.tk.readAt

\* A command found a record of age exactly CacheDuration, fetched synchronously,
\* and returned the rows it wrote to the cache.
C4_Witness ==
    \E k \in DOMAIN msgs :
        LET e == msgs[k]
        IN  /\ e.tk.cache.ok
            /\ AgeSeen(e.tk) = CacheDuration
            /\ e.tk.fetched
            /\ e.msg.type = SuccessType(e.tk.kind)
            /\ e.msg.items # <<>>
            /\ e.tk.afterSave = Cache(Contents(e.msg.items), e.tk.saving.Updated)

C5_HitReturnsCached ==
    \A k \in DOMAIN msgs :
        LET e == msgs[k]
        IN  /\ e.tk.hit =>
                 /\ e.tk.spawned = 1
                 /\ ~e.tk.fetched
                 /\ e.msg.type = SuccessType(e.tk.kind)
                 /\ Contents(e.msg.items) = e.tk.cache.Data
            /\ ~e.tk.hit => e.tk.spawned = 0

C5_RefreshOverwrites ==
    \A t \in AllIds :
        (/\ t \in TaskIds
         /\ task[t].bg
         /\ task[t].pc = "encode"
         /\ task'[t].kind = "none")
        => Decode(files'[PathOf(task[t])].content) = task[t].saving

\* C5: a command served from a fresh record started exactly one fetch, as a
\* background goroutine and none synchronously, and returns the rows of the record as
\* it read it, whenever and however the background fetch ends; a background fetch
\* that succeeds leaves its result as the cache record.
C5_FreshHit == [] C5_HitReturnsCached /\ [][C5_RefreshOverwrites]_vars

\* A command returned the rows of the record it had read although its background
\* refresh had already replaced the record with different rows.
C5_Witness ==
    \E k \in DOMAIN msgs :
        LET e == msgs[k]
        IN  /\ e.tk.hit
            /\ e.tk.spawned = 1
            /\ e.msg.items # <<>>
            /\ Contents(e.msg.items) = e.tk.cache.Data
            /\ Decode(files[PathOf(e.tk)].content).ok
            /\ Decode(files[PathOf(e.tk)].content).Data # e.tk.cache.Data
            /\ \A t \in TaskIds : task[t].kind = "none"

\* C6: cache writes are atomic for readers.  A LoadCache of a cache file that exists
\* decodes a complete record, never an empty or truncated document.
C6_AtomicCacheWrite ==
    /\ \A t \in TaskIds : task[t].loaded => task[t].cache.ok
    /\ \A k \in DOMAIN msgs : msgs[k].tk.loaded => msgs[k].tk.cache.ok

C7_ErrorWroteNothing ==
    \A k \in DOMAIN msgs :
        msgs[k].msg.type = "FetchErrorMsg" => (msgs[k].tk.fetched /\ ~msgs[k].tk.wrote)

C7_ErrorStepKeepsFiles ==
    (/\ Len(msgs') = Len(msgs) + 1
     /\ msgs'[Len(msgs')].msg.type = "FetchErrorMsg")
    => files' = files

\* C7: when the cache is missing, unreadable or stale and the synchronous fetch fails,
\* the command returns FetchErrorMsg and has written nothing to the cache file.
C7_FailureKeepsCache == [] C7_ErrorWroteNothing /\ [][C7_ErrorStepKeepsFiles]_vars

\* A command found a stale record, its synchronous fetch failed, and the file still
\* holds the stale record.
C7_Witness ==
    \E k \in DOMAIN msgs :
        LET e == msgs[k]
        IN  /\ e.msg.type = "FetchErrorMsg"
            /\ e.tk.cache.ok
            /\ AgeSeen(e.tk) >= CacheDuration
            /\ ~e.tk.wrote
            /\ Decode(files[PathOf(e.tk)].content) = e.tk.cache

(***************************************************************************)
(* Properties of the event loop (SpecUI).                                  *)
(***************************************************************************)
InFlight(c) == {i \in DOMAIN cmds : cmds[i].cmd = c}

\* C8: a fetch failure leaves the fetching state.  Once the FetchErrorMsg of the
\* only fetch in progress has been handed to Update, the model no longer shows the
\* loading indicator.
C8_ErrorLeavesFetching ==
    (ui.last = "FetchErrorMsg" /\ cmds = <<>>) => ~ui.m.loading

\* C9: most recent request wins.  After table a and then another table b were
\* selected and both rows fetches delivered their rows, in either order, the data
\* list shows the rows the fetch of b delivered, b being the table recorded as
\* selectedTable.
C9_MostRecentRequestWins ==
    (/\ Len(ui.log) = 4
     /\ InFlight("fetchAllData") = {}
     /\ ui.log[1].e = "issued" /\ ui.log[2].e = "issued"
     /\ ui.log[1].tableName # ui.log[2].tableName
     /\ ui.log[3].type = "DataFetchedMsg" /\ ui.log[4].type = "DataFetchedMsg")
    => /\ ui.m.selectedTable = ui.log[2].tableName
       /\ \E i \in {3, 4} : /\ ui.log[i].tableName = ui.log[2].tableName
                            /\ ui.m.dataList.items = ui.log[i].items

\* C10: at any time at most one collections fetch and at most one rows fetch that
\* the event loop issued is in flight.
C10_OneFetchInFlight ==
    /\ Cardinality(InFlight("fetchCollections")) <= 1
    /\ Cardinality(InFlight("fetchAllData")) <= 1

(***************************************************************************)
(* Properties of concurrent cache writers (SpecWriters).                   *)
(***************************************************************************)
\* C11: two fetches that write the cache file of the same table concurrently leave
\* in it, once both have returned, the complete document of exactly one of them:
\* no mixture of the two and no truncated record.
C11_LastWriterWins ==
    (Len(msgs) = 2 /\ \A t \in TaskIds : task[t].kind = "none")
    => files[PathOf(msgs[1].tk)].content \in {Encode(msgs[1].tk.saving), Encode(msgs[2].tk.saving)}

(***************************************************************************)
(* Properties of the key schema resolver (SpecToken, SpecScan).            *)
(***************************************************************************)
\* The attributes of the key schema a task resolved.
SchemaAttrs(tk) == {tk.partitionKey} \cup (IF tk.sortKey.isNil THEN {} ELSE {tk.sortKey.s})

\* C12: token sanitization is idempotent.  Sanitizing the token a worker sends, nil
\* included, gives that token again; and the token a worker sends after sanitizing
\* an already sanitized token, handed back by the service, is that sanitized token.
C12_SanitizeIdempotent ==
    \A t \in TaskIds : \A i \in DOMAIN wk[t] :
        /\ wk[t][i].pc = "input"
           => validateExclusiveStartKey(wk[t][i].input.ExclusiveStartKey,
                                        task[t].partitionKey, task[t].sortKey)
              = wk[t][i].input.ExclusiveStartKey
        /\ (wk[t][i].pc = "input" /\ wk[t][i].reads = 2)
           => wk[t][i].input.ExclusiveStartKey = wk[t][i].startKey

\* A token with two attributes outside the schema and without the sort key of the
\* schema went through the sanitizer twice.
C12_Witness ==
    \E t \in TaskIds : \E i \in DOMAIN wk[t] :
        /\ wk[t][i].pc = "input" /\ wk[t][i].reads = 2
        /\ ~wk[t][i].lek.isNil
        /\ {"x", "y", "pk"} \subseteq DOMAIN wk[t][i].lek.m
        /\ ~task[t].sortKey.isNil
        /\ task[t].sortKey.s \notin DOMAIN wk[t][i].lek.m
        /\ wk[t][i].input.ExclusiveStartKey # wk[t][i].lek

\* C13: the sanitized token is nil exactly when the raw token is nil; otherwise its
\* attributes are those of the raw token that belong to the key schema, each with the
\* value it has in the raw token.
C13_SanitizeKeepsKeyAttributes ==
    \A t \in TaskIds : \A i \in DOMAIN wk[t] :
        (wk[t][i].pc = "input" /\ wk[t][i].reads = 1)
        => LET raw == wk[t][i].lek
               out == wk[t][i].input.ExclusiveStartKey
           IN  /\ out.isNil <=> raw.isNil
               /\ ~raw.isNil =>
                     /\ DOMAIN out.m = DOMAIN raw.m \cap SchemaAttrs(task[t])
                     /\ \A a \in DOMAIN out.m : out.m[a] = raw.m[a]

\* A token holding only attributes outside the schema was sanitized to the empty,
\* non-nil token.
C13_Witness ==
    \E t \in TaskIds : \E i \in DOMAIN wk[t] :
        /\ wk[t][i].pc = "input" /\ wk[t][i].reads = 1
        /\ ~wk[t][i].lek.isNil
        /\ DOMAIN wk[t][i].lek.m = {"sk", "x"}
        /\ task[t].sortKey.isNil
        /\ ~wk[t][i].input.ExclusiveStartKey.isNil
        /\ DOMAIN wk[t][i].input.ExclusiveStartKey.m = {}

HasKeyType(ks, type) == \E i \in DOMAIN ks : ks[i].KeyType = type
NameOfKeyType(ks, type) == ks[CHOOSE i \in DOMAIN ks : ks[i].KeyType = type].AttributeName
MissingPartitionKey == "partition key not found in table schema"

\* C14: extractPrimaryKeyAttributes fails exactly when the key schema has no HASH
\* element, and otherwise yields the HASH element's name and the RANGE element's name
\* if there is one.  A scan in which it fails returns FetchErrorMsg, launches no
\* worker and writes nothing to the cache.
C14_MissingPartitionKey ==
    /\ \A t \in TaskIds :
          task[t].pc \in {"launch", "create", "encode"} =>
             /\ HasKeyType(keySchema, "HASH")
             /\ task[t].partitionKey = NameOfKeyType(keySchema, "HASH")
             /\ task[t].sortKey = IF HasKeyType(keySchema, "RANGE")
                                  THEN PtrString(NameOfKeyType(keySchema, "RANGE"))
                                  ELSE NilString
    /\ \A k \in DOMAIN msgs :
          /\ msgs[k].msg.err = MissingPartitionKey => ~HasKeyType(keySchema, "HASH")
          /\ ~HasKeyType(keySchema, "HASH") =>
                /\ msgs[k].msg.type = "FetchErrorMsg"
                /\ msgs[k].workers = <<>>
                /\ ~msgs[k].tk.wrote
                /\ files = OldFiles

\* A scan of a table whose schema has a RANGE element only returned the
\* missing-partition-key error.
C14_Witness ==
    \E k \in DOMAIN msgs :
        /\ msgs[k].msg.type = "FetchErrorMsg"
        /\ msgs[k].msg.err = MissingPartitionKey
        /\ HasKeyType(keySchema, "RANGE")
        /\ msgs[k].workers = <<>>
        /\ files = OldFiles

(***************************************************************************)
(* Properties of the view state (SpecUI).                                  *)
(***************************************************************************)
\* C15: a call of Update that finds the state ViewingCollections and leaves it
\* ViewingData is one that handled a DataFetchedMsg (so the select key leaves the
\* state at ViewingCollections), and a FetchErrorMsg does not change the state.
C15_DataViewOnlyOnData ==
    /\ (ui.from = "ViewingCollections" /\ ui.m.state = "ViewingData") => ui.last = "DataFetchedMsg"
    /\ ui.last = "FetchErrorMsg" => ui.m.state = ui.from

\* The rows of a selected table arrived while the collections were in view.
C15_Witness ==
    /\ ui.from = "ViewingCollections"
    /\ ui.m.state = "ViewingData"
    /\ ui.last = "DataFetchedMsg"
    /\ ui.m.loading = FALSE
    /\ ui.m.dataList.items # <<>>
    /\ \E i \in DOMAIN ui.log : ui.log[i].e = "issued" /\ ui.log[i].tableName = ui.m.selectedTable

(***************************************************************************)
(* Properties of the scan's failure handling (SpecScan).                   *)
(***************************************************************************)
\* The rows of the records of table t that convert.
ConvertibleRows(t) ==
    {tableDataRow(jsonMarshal(DynamoItemToMap(Item(t, i)).val)) : i \in (1..tbl[t].n) \ tbl[t].bad}

\* C16: a record holding a value of an unsupported type is dropped alone.  A scan
\* fails only if a page read or the table description failed, and a successful scan
\* over N >= 1 segments returns, and caches, exactly the records that convert.
C16_BadRecordDroppedAlone ==
    \A k \in DOMAIN msgs :
        LET e == msgs[k]
            t == e.tk.tableName
        IN  /\ e.msg.type = "FetchErrorMsg" => (e.workers = <<>> \/ WorkerFailedIn(e.workers))
            /\ (e.msg.type = "DataFetchedMsg" /\ e.tk.numSegments >= 1) =>
                  /\ Len(e.msg.items) = tbl[t].n - Cardinality(tbl[t].bad)
                  /\ RowSet(e.msg.items) = ConvertibleRows(t)
                  /\ e.tk.afterSave.ok
                  /\ e.tk.afterSave.Data = Contents(e.msg.items)

\* One worker scanned three records in two pages; the first record of the first page
\* did not convert and the two others were returned.
C16_Witness ==
    \E k \in DOMAIN msgs :
        LET e == msgs[k]
        IN  /\ e.msg.type = "DataFetchedMsg"
            /\ e.tk.numSegments = 1
            /\ tbl[e.tk.tableName].n = 3
            /\ tbl[e.tk.tableName].bad = {1}
            /\ e.workers[1].reads = 2
            /\ Len(e.msg.items) = 2
            /\ e.tk.afterSave.Data = Contents(e.msg.items)

\* C17: a failure of the DescribeTable call is fatal to the scan, which returns
\* FetchErrorMsg, issues no page read and does not write the cache.
C17_DescribeFailureFatal ==
    /\ \A t \in TaskIds : task[t].describeErr = ""
    /\ \A k \in DOMAIN msgs :
          msgs[k].tk.describeErr # "" =>
             /\ msgs[k].msg = FetchErrorMsg(msgs[k].tk.describeErr)
             /\ msgs[k].workers = <<>>
             /\ ~msgs[k].tk.wrote
             /\ files = OldFiles

\* The DescribeTable call of a scan failed although the table's key schema is sound.
C17_Witness ==
    \E k \in DOMAIN msgs :
        /\ msgs[k].tk.describeErr = "describe table failed"
        /\ msgs[k].msg.type = "FetchErrorMsg"
        /\ msgs[k].workers = <<>>
        /\ HasKeyType(keySchema, "HASH")
        /\ tbl[msgs[k].tk.tableName].n >= 1
        /\ numCPU >= 2

\* The rows of the convertible records of one segment of table t.
SegmentRows(t, seg, total) ==
    {tableDataRow(jsonMarshal(DynamoItemToMap(Item(t, i)).val)) :
        i \in {j \in (1..tbl[t].n) \ tbl[t].bad : SegmentOf(j, total) = seg}}

\* C18: a worker's error does not cancel its siblings.  When the scan reads the error
\* channel, all N workers have finished, and every worker whose own page read did not
\* fail has paged its segment to exhaustion and appended all of its rows.
C18_SiblingsRunToEnd ==
    \A k \in DOMAIN msgs :
        LET e == msgs[k] IN
        e.workers # <<>> =>
           /\ Len(e.workers) = e.tk.numSegments
           /\ Len(e.tk.errChan) = Cardinality({i \in DOMAIN e.workers : e.workers[i].failed})
           /\ \A i \in DOMAIN e.workers :
                 /\ e.workers[i].pc = "done"
                 /\ e.workers[i].failed =>
                       \E j \in DOMAIN e.tk.errChan :
                           e.tk.errChan[j] = "scan failed: segment " \o ToString(i - 1)
                 /\ ~e.workers[i].failed =>
                       /\ e.workers[i].lek.isNil
                       /\ SegmentRows(e.tk.tableName, i - 1, e.tk.numSegments)
                             \subseteq RowSet(e.tk.items)

\* A scan failed in which, after one worker had reported its error, a sibling read
\* two more pages and finished its segment.
C18_Witness ==
    \E k \in DOMAIN msgs :
        /\ msgs[k].msg.type = "FetchErrorMsg"
        /\ \E i, j \in DOMAIN msgs[k].workers :
              /\ msgs[k].workers[i].failed
              /\ ~msgs[k].workers[j].failed
              /\ msgs[k].workers[j].late
              /\ msgs[k].workers[j].reads >= 2
              /\ SegmentRows(msgs[k].tk.tableName, j - 1, msgs[k].tk.numSegments) # {}

(***************************************************************************)
(* SpecDeadline: one run of fetchAndCacheTableData whose context deadline  *)
(* (120 seconds after the call began) may elapse at any point of the run.  *)
(* The goroutines of the scan are scheduled fairly.                        *)
(***************************************************************************)
\* A worker that has received the last page of its segment.
Exhausted(w) == ~w.failed /\ w.reads >= 1 /\ w.pc \in {"lock", "append", "done"} /\ w.lek.isNil

\* Every segment of the scan of task tk, with workers ws, has been read to its end.
AllExhausted(tk, ws) ==
    \/ tk.pc \in {"create", "encode"}
    \/ /\ tk.pc = "launch"
       /\ Len(ws) = tk.numSegments
       /\ \A i \in DOMAIN ws : Exhausted(ws[i])

\* The timer of context.WithTimeout fires: ctx is done from here on.
DeadlineElapses(t) ==
    /\ t \in TaskIds
    /\ task[t].pc \in {"describe", "launch", "create", "encode"}
    /\ ~task[t].expired
    /\ task' = [task EXCEPT ![t].expired = TRUE,
                            ![t].cutShort = ~AllExhausted(task[t], wk[t])]
    /\ UNCHANGED <<conv, numCPU, keySchema, tbl, clock, diskOK, files, wk, msgs, ui, cmds>>

\* Machines on which the scan has no, one and two segments.
InitDeadline ==
    /\ numCPU \in {1, 2, 4}
    /\ keySchema = <<[AttributeName |-> "pk", KeyType |-> "HASH"]>>
    /\ tbl = [t \in TableNames |-> IF t = "A" THEN [n |-> MaxRecords, bad |-> {}]
                                   ELSE [n |-> 0, bad |-> {}]]
    /\ clock = CacheDuration
    /\ diskOK = TRUE
    /\ files = OldFiles
    /\ task = [t \in {1} |-> FetchTask("rows", "A", FALSE)]
    /\ wk = [t \in {1} |-> <<>>]
    /\ msgs = <<>>
    /\ ui = UIIdle
    /\ cmds = <<>>
    /\ conv = NoConv

NextDeadline ==
    \/ \E t \in AllIds : DeadlineElapses(t)
    \/ \E t \in AllIds : DescribeTable(t)
    \/ \E t \in AllIds : LaunchWorker(t)
    \/ \E t \in AllIds, s \in Segments : WorkerScan(t, s)
    \/ \E t \in AllIds, s \in Segments : WorkerLock(t, s)
    \/ \E t \in AllIds, s \in Segments : WorkerAppend(t, s)
    \/ \E t \in AllIds : FinishScan(t)
    \/ \E t \in AllIds : SaveCacheCreate(t)
    \/ \E t \in AllIds : SaveCacheEncode(t)

FairDeadline ==
    /\ WF_vars(DescribeTable(1))
    /\ WF_vars(LaunchWorker(1))
    /\ \A s \in Segments : WF_vars(WorkerScan(1, s))
    /\ \A s \in Segments : WF_vars(WorkerLock(1, s))
    /\ \A s \in Segments : WF_vars(WorkerAppend(1, s))
    /\ WF_vars(FinishScan(1))
    /\ WF_vars(SaveCacheCreate(1))
    /\ WF_vars(SaveCacheEncode(1))

SpecDeadline == InitDeadline /\ [][NextDeadline]_vars /\ FairDeadline

\* The deadline elapsed before every segment was exhausted.
CutShort(tk) == tk.expired /\ tk.cutShort

\* After such a deadline the scan is never in SaveCache, and once it has returned,
\* its message is a FetchErrorMsg, all its workers are done and the cache files are
\* the ones from before the scan.
C19_CutShortNeverSaves ==
    /\ \A t \in TaskIds : CutShort(task[t]) => task[t].pc \in {"describe", "launch"}
    /\ \A k \in DOMAIN msgs :
          CutShort(msgs[k].tk) =>
             /\ msgs[k].msg.type = "FetchErrorMsg"
             /\ msgs[k].msg.items = <<>>
             /\ \A i \in DOMAIN msgs[k].workers : msgs[k].workers[i].pc = "done"
             /\ ~msgs[k].tk.wrote
             /\ files = OldFiles

\* Every page read made once the deadline has elapsed fails.
C19_LateReadFails ==
    \A t \in TaskIds : \A i \in DOMAIN wk[t] :
        (task[t].expired /\ i \in DOMAIN wk'[t] /\ wk'[t][i].reads > wk[t][i].reads)
            => /\ wk'[t][i].failed
               /\ wk'[t][i].pc = "done"

C19_Returned ==
    \E k \in DOMAIN msgs : CutShort(msgs[k].tk) /\ msgs[k].msg.type = "FetchErrorMsg"

\* C19: the describe call and all workers share one deadline.  If it elapses before
\* every segment is exhausted, every page read from then on fails, all workers
\* terminate, and the scan returns FetchErrorMsg without writing the cache.
C19_SharedDeadline ==
    /\ [] C19_CutShortNeverSaves
    /\ [][C19_LateReadFails]_vars
    /\ (\E t \in TaskIds : CutShort(task[t])) ~> C19_Returned

\* A scan returned after its deadline elapsed while one worker had finished its
\* segment, a second had pages left to read, and rows had been accumulated.
C19_Witness ==
    \E k \in DOMAIN msgs :
        /\ CutShort(msgs[k].tk)
        /\ msgs[k].tk.items # <<>>
        /\ msgs[k].tk.errChan = <<DeadlineExceeded>>
        /\ \E i, j \in DOMAIN msgs[k].workers :
              /\ msgs[k].workers[i].failed
              /\ msgs[k].workers[i].reads >= 2
              /\ Exhausted(msgs[k].workers[j])

(***************************************************************************)
(* Properties of the background refresh (SpecCache).                       *)
(***************************************************************************)
\* Only commands deliver messages: one message at most for each command run.
C20_OnlyCommandsDeliver ==
    /\ Len(msgs) <= MaxReads
    /\ \A k \in DOMAIN msgs : ~msgs[k].tk.bg

\* The step in which a background refresh ends sends nothing to the event loop, and
\* if the refresh ends before SaveCache, that is with an error, it has written no
\* file and the step leaves the files as they are.
C20_RefreshEndsSilently ==
    \A t \in TaskIds :
        (task[t].bg /\ task[t].kind # "none" /\ task'[t].kind = "none") =>
            /\ msgs' = msgs
            /\ task[t].pc # "encode" =>
                  /\ ~task[t].wrote
                  /\ files' = files
                  /\ task'[t].result.type # SuccessType(task[t].kind)

\* C20: a background refresh never reaches the caller or the UI.  Whether it succeeds
\* or fails it delivers no message to the event loop, and when it fails it leaves
\* the cache files unchanged.
C20_RefreshNeverReachesUI == [] C20_OnlyCommandsDeliver /\ [][C20_RefreshEndsSilently]_vars

\* The command served table A's rows from a fresh record and its refresh has failed in
\* the scan: the event loop holds the command's message alone and the file is the
\* old one.
C20_Witness ==
    /\ Len(msgs) = 1
    /\ msgs[1].tk.hit
    /\ msgs[1].tk.kind = "rows"
    /\ msgs[1].msg.type = "DataFetchedMsg"
    /\ \E t \in TaskIds :
          /\ task[t].kind = "none"
          /\ task[t].bg
          /\ task[t].result.type = "FetchErrorMsg"
    /\ files = OldFiles

\* The refresh of a fresh hit has succeeded and rewritten the file; the event loop
\* holds the command's message alone.
C20_WitnessRefreshed ==
    /\ Len(msgs) = 1
    /\ msgs[1].tk.hit
    /\ \E t \in TaskIds :
          /\ task[t].kind = "none"
          /\ task[t].bg
          /\ task[t].result.type = msgs[1].msg.type
    /\ files # OldFiles

(***************************************************************************)
(* SpecSerializer: one record of a page on its way through the conversion  *)
(* loop of the worker (DynamoItemToMap, json.Marshal, tableDataRow) and,   *)
(* when the row is viewed, through json.Unmarshal.                         *)
(***************************************************************************)
MaxDepth == 2     \* lists and maps nest to this depth

\* One value of every member of types.AttributeValue, and one of a member the
\* serializer does not know.
BinaryAV(b) == [T |-> "B", Value |-> b]
ScalarValues ==
    {StringAV("a"), [T |-> "N", Value |-> "1.50"], [T |-> "BOOL", Value |-> TRUE],
     [T |-> "NULL"], BinaryAV(<<1, 2>>),
     [T |-> "SS", Value |-> <<"b", "a">>], [T |-> "NS", Value |-> <<"2", "1">>],
     [T |-> "BS", Value |-> <<(<<2>>), (<<1>>)>>], UnknownAV}
\* What stands second in a list or map of two elements.
SecondValues == {StringAV("z"), BinaryAV(<<3>>), UnknownAV}

ListAV(seq) == [T |-> "L", Value |-> seq]
MapAV(f) == [T |-> "M", Value |-> f]

\* The attribute values nested to depth d at most.
RECURSIVE AttributeValues(_)
AttributeValues(d) ==
    IF d = 0 THEN ScalarValues
    ELSE LET inner == AttributeValues(d - 1)
         IN  ScalarValues
             \cup {ListAV(<<>>)}
             \cup {ListAV(<<x>>) : x \in inner}
             \cup {ListAV(<<x, y>>) : x \in inner, y \in SecondValues}
             \cup {MapAV([k \in {"k"} |-> x]) : x \in inner}
             \cup {MapAV([k \in {"k", "l"} |-> IF k = "k" THEN x ELSE y]) :
                      x \in inner, y \in SecondValues}

\* The records of a page: one attribute, or two.
Records ==
    {[a \in {"v"} |-> x] : x \in AttributeValues(MaxDepth)}
    \cup {[a \in {"v", "w"} |-> IF a = "v" THEN x ELSE y] :
             x \in AttributeValues(MaxDepth), y \in SecondValues}

\* json.Unmarshal(data, &jsonData) with jsonData of type interface{}: a JSON string
\* becomes a string, an array a []interface{}, an object a map[string]interface{}.
RECURSIVE jsonUnmarshal(_)
jsonUnmarshal(x) ==
    CASE x.j = "string" -> [g |-> "string", v |-> x.v]
      [] x.j = "bool"   -> [g |-> "bool", v |-> x.v]
      [] x.j = "null"   -> [g |-> "nil"]
      [] x.j = "array"  -> [g |-> "[]interface{}", v |-> [i \in 1..Len(x.v) |-> jsonUnmarshal(x.v[i])]]
      [] x.j = "object" -> [g |-> "map", v |-> [k \in DOMAIN x.v |-> jsonUnmarshal(x.v[k])]]

InitSerializer ==
    /\ numCPU = 2
    /\ keySchema = <<[AttributeName |-> "pk", KeyType |-> "HASH"]>>
    /\ tbl = [t \in TableNames |-> [n |-> 0, bad |-> {}]]
    /\ clock = 0
    /\ diskOK = TRUE
    /\ files = [p \in Paths |-> NoFile]
    /\ task = [t \in {} |-> NoTask]
    /\ wk = [t \in {} |-> <<>>]
    /\ msgs = <<>>
    /\ ui = UIIdle
    /\ cmds = <<>>
    /\ \E item \in Records : conv = [pc |-> "convert", item |-> item]

\* mapItem, err := tools.DynamoItemToMap(item); on an error the record is skipped.
ConvertRecord ==
    /\ conv.pc = "convert"
    /\ LET r == DynamoItemToMap(conv.item)
       IN  conv' = IF r.err THEN [pc |-> "skipped", item |-> conv.item]
                   ELSE [pc |-> "marshal", item |-> conv.item, mapItem |-> r.val]
    /\ UNCHANGED <<numCPU, keySchema, tbl, clock, diskOK, files, task, wk, msgs, ui, cmds>>

\* jsonData, err := json.Marshal(mapItem); the row is tableDataRow(string(jsonData)).
MarshalRecord ==
    /\ conv.pc = "marshal"
    /\ conv' = [pc |-> "row", item |-> conv.item, mapItem |-> conv.mapItem,
                row |-> tableDataRow(jsonMarshal(conv.mapItem))]
    /\ UNCHANGED <<numCPU, keySchema, tbl, clock, diskOK, files, task, wk, msgs, ui, cmds>>

\* The row's text is decoded again when the row is rendered.
UnmarshalRow ==
    /\ conv.pc = "row"
    /\ conv' = [pc |-> "decoded", item |-> conv.item, mapItem |-> conv.mapItem,
                row |-> conv.row, jsonData |-> jsonUnmarshal(FilterValue(conv.row))]
    /\ UNCHANGED <<numCPU, keySchema, tbl, clock, diskOK, files, task, wk, msgs, ui, cmds>>

NextSerializer ==
    \/ ConvertRecord
    \/ MarshalRecord
    \/ UnmarshalRow

SpecSerializer == InitSerializer /\ [][NextSerializer]_vars

(***************************************************************************)
(* Properties of the serializer (SpecSerializer).                          *)
(***************************************************************************)
\* C21: round trip.  The structure DynamoItemToMap produced for a record of supported
\* values, encoded to JSON text and decoded back, is deep-equal to that structure.
C21_RoundTrip ==
    conv.pc = "decoded" => conv.jsonData = conv.mapItem

\* Whether no value of an unsupported variant occurs in av, at any depth.
RECURSIVE Supported(_)
Supported(av) ==
    CASE av.T \in {"S", "N", "BOOL", "NULL", "B", "SS", "NS", "BS"} -> TRUE
      [] av.T = "L" -> \A i \in DOMAIN av.Value : Supported(av.Value[i])
      [] av.T = "M" -> \A k \in DOMAIN av.Value : Supported(av.Value[k])
      [] OTHER -> FALSE

\* Whether the converted value val is what the mapping prescribes for av.
RECURSIVE Mirrors(_, _)
Mirrors(av, val) ==
    CASE av.T \in {"S", "N"} -> val.g = "string" /\ val.v = av.Value
      [] av.T = "BOOL" -> val.g = "bool" /\ val.v = av.Value
      [] av.T = "NULL" -> val.g = "nil"
      [] av.T = "L" -> /\ val.g = "[]interface{}"
                       /\ Len(val.v) = Len(av.Value)
                       /\ \A i \in DOMAIN av.Value : Mirrors(av.Value[i], val.v[i])
      [] av.T = "M" -> /\ val.g = "map"
                       /\ DOMAIN val.v = DOMAIN av.Value
                       /\ \A k \in DOMAIN av.Value : Mirrors(av.Value[k], val.v[k])
      [] av.T \in {"SS", "NS"} -> /\ val.g = "[]string"
                                  /\ Len(val.v) = Len(av.Value)
                                  /\ \A i \in DOMAIN av.Value : val.v[i] = av.Value[i]
      [] av.T = "BS" -> /\ val.g = "[][]byte"
                        /\ Len(val.v) = Len(av.Value)
                        /\ \A i \in DOMAIN av.Value : val.v[i] = av.Value[i]
      [] av.T = "B" -> TRUE
      [] OTHER -> FALSE

\* C29: the mapping of the serializer.  A record converts exactly when no unsupported
\* variant occurs in it at any depth, and then every attribute is mapped, recursively:
\* string and number to the same string, boolean to the same boolean, null to nil, a
\* list to a list of the converted elements in order, a map to a map with the same keys,
\* and a set to a list of its elements in the order given.
C29_SerializerMapping ==
    /\ conv.pc = "skipped" => \E a \in DOMAIN conv.item : ~Supported(conv.item[a])
    /\ conv.pc \in {"marshal", "row", "decoded"} =>
          /\ \A a \in DOMAIN conv.item : Supported(conv.item[a])
          /\ conv.mapItem.g = "map"
          /\ DOMAIN conv.mapItem.v = DOMAIN conv.item
          /\ \A a \in DOMAIN conv.item : Mirrors(conv.item[a], conv.mapItem.v[a])

\* A record was converted whose attribute is a list holding a map that holds a number
\* set, followed by a string.
C29_Witness ==
    /\ conv.pc = "marshal"
    /\ conv.item["v"] = ListAV(<<MapAV([k \in {"k"} |-> [T |-> "NS", Value |-> <<"2", "1">>]]),
                                StringAV("z")>>)
    /\ conv.mapItem.v["v"].v[1].v["k"].v = <<"2", "1">>

\* A record was skipped because of an unsupported value two levels down in a map.
C29_WitnessUnsupported ==
    /\ conv.pc = "skipped"
    /\ conv.item["v"] = MapAV([k \in {"k"} |-> ListAV(<<UnknownAV>>)])

(***************************************************************************)
(* Properties of the cache record (SpecCache).                             *)
(***************************************************************************)
\* The step that ends a SaveCache leaves, as the record of the file, the items the
\* fetch returns, in their order and nothing else, stamped with the time SaveCache
\* took.
C22_RecordIsTheFetch ==
    \A t \in TaskIds :
        (task[t].pc = "encode" /\ task'[t].kind = "none") =>
            LET record == Decode(files'[PathOf(task[t])].content)
            IN  /\ record.ok
                /\ record.Data = Contents(task[t].result.items)
                /\ record.Updated = task[t].saving.Updated
                /\ task[t].result.type = SuccessType(task[t].kind)

\* SaveCache stamps the record with the time at which it is called.
C22_StampIsNow ==
    \A t \in TaskIds :
        (task[t].pc # "create" /\ task'[t].pc = "create") => task'[t].saving.Updated = clock

\* A fetch that ends anywhere but in SaveCache has failed.
C22_SuccessGoesThroughSave ==
    \A t \in TaskIds :
        (task[t].fetched /\ task[t].kind # "none" /\ task'[t].kind = "none"
            /\ task[t].pc # "encode") =>
                IF task[t].bg THEN task'[t].result.type # SuccessType(task[t].kind)
                ELSE msgs'[Len(msgs')].msg.type = "FetchErrorMsg"

\* C22: every successful fetch, synchronous or background, overwrites the cache record
\* wholesale: the record then holds exactly the sequence the fetch returned, in order,
\* with nothing of the previous record, and the time of that write.
C22_WholesaleOverwrite ==
    /\ [][C22_RecordIsTheFetch]_vars
    /\ [][C22_StampIsNow]_vars
    /\ [][C22_SuccessGoesThroughSave]_vars

\* A command found table A's record stale, fetched, and replaced the old record, whose
\* row is not among the new ones.
C22_Witness ==
    \E k \in DOMAIN msgs :
        LET e == msgs[k]
        IN  /\ e.tk.kind = "rows"
            /\ e.tk.fetched
            /\ e.tk.cache.ok
            /\ e.tk.cache.Data = OldRows(e.tk.tableName)
            /\ e.msg.type = "DataFetchedMsg"
            /\ e.msg.items # <<>>
            /\ e.tk.wrote
            /\ clock = e.tk.saving.Updated
            /\ files[PathOf(e.tk)].content = Encode(Cache(Contents(e.msg.items), clock))
            /\ \A i \in DOMAIN e.tk.afterSave.Data :
                  e.tk.afterSave.Data[i] \notin RowSet([j \in {1} |-> OldRows(e.tk.tableName)[1]])

\* The cache file of a resource key: the collections, or the rows of one table.
KeyFile(kind, tableName) ==
    IF kind = "colls" THEN CacheDir \o "/collections_cache.json"
    ELSE CacheDir \o "/" \o tableName \o "_data_cache.json"

\* Distinct table names have distinct cache files, none of them the collections file,
\* also for a table that is itself named "collections".
C23_DistinctFiles ==
    \A a, b \in TableNames \cup {"collections"} :
        /\ tableDataCacheFilePath(a) # CollectionsCacheFilePath
        /\ a # b => tableDataCacheFilePath(a) # tableDataCacheFilePath(b)

\* A step changes a cache file only if it is a step of a fetch for that file's key.
C23_OnlyOwnFile ==
    \A p \in Paths :
        files'[p] # files[p] =>
            \E t \in TaskIds :
                /\ task'[t] # task[t]
                /\ task[t].pc \in {"create", "encode"}
                /\ p = KeyFile(task[t].kind, task[t].tableName)
                /\ \A q \in Paths \ {p} : files'[q] = files[q]

\* C23: cache records of different keys are independent.  A fetch or refresh for one
\* table changes that table's cache file alone, a collections fetch changes the
\* collections file alone, and no two keys share a file.
C23_KeysIndependent == [] C23_DistinctFiles /\ [][C23_OnlyOwnFile]_vars

\* Table A's rows were fetched and saved; the collections file and table B's file are
\* the old ones.
C23_Witness ==
    /\ Len(msgs) = 1
    /\ msgs[1].tk.kind = "rows"
    /\ msgs[1].tk.tableName = "A"
    /\ msgs[1].tk.wrote
    /\ files[tableDataCacheFilePath("A")] # OldFiles[tableDataCacheFilePath("A")]
    /\ files[tableDataCacheFilePath("B")] = OldFiles[tableDataCacheFilePath("B")]
    /\ files[CollectionsCacheFilePath] = OldFiles[CollectionsCacheFilePath]

(***************************************************************************)
(* SpecDisk: SpecCache's commands and refreshes over a cache directory     *)
(* that may be unwritable from the start or become so at any moment, and   *)
(* cache files that may be absent, sound, empty or cut off.                *)
(***************************************************************************)
InitDisk ==
    /\ numCPU = 2
    /\ keySchema = <<[AttributeName |-> "pk", KeyType |-> "HASH"]>>
    /\ tbl = [t \in TableNames |-> [n |-> 1, bad |-> {}]]
    /\ clock \in {0, CacheDuration}
    /\ diskOK \in BOOLEAN
    /\ files \in {[p \in Paths |-> NoFile], OldFiles,
                  [p \in Paths |-> [exists |-> TRUE, content |-> <<>>]],
                  [p \in Paths |-> [exists |-> TRUE,
                                     content |-> SubSeq(OldFiles[p].content, 1, 2)]]}
    /\ task = [t \in 1..MaxTasks |-> NoTask]
    /\ wk = [t \in 1..MaxTasks |-> <<>>]
    /\ msgs = <<>>
    /\ ui = UIIdle
    /\ cmds = <<>>
    /\ conv = NoConv

\* The cache directory stops being writable (disk full, permissions changed).
DiskFails ==
    /\ diskOK
    /\ diskOK' = FALSE
    /\ UNCHANGED <<conv, numCPU, keySchema, tbl, clock, files, task, wk, msgs, ui, cmds>>

NextDisk ==
    \/ DiskFails
    \/ \E t \in AllIds : RunCommand(t, "colls", "", MaxReads)
    \/ \E t \in AllIds, name \in TableNames : RunCommand(t, "rows", name, MaxReads)
    \/ \E t \in AllIds : LoadCacheOpen(t)
    \/ \E t \in AllIds : LoadCacheDecode(t)
    \/ \E t \in AllIds : ReturnCached(t)
    \/ \E t \in AllIds : ListTablesPage(t)
    \/ \E t \in AllIds : DescribeTable(t)
    \/ \E t \in AllIds : LaunchWorker(t)
    \/ \E t \in AllIds, s \in Segments : WorkerScan(t, s)
    \/ \E t \in AllIds, s \in Segments : WorkerLock(t, s)
    \/ \E t \in AllIds, s \in Segments : WorkerAppend(t, s)
    \/ \E t \in AllIds : FinishScan(t)
    \/ \E t \in AllIds : SaveCacheCreate(t)
    \/ \E t \in AllIds : SaveCacheEncode(t)

SpecDisk == InitDisk /\ [][NextDisk]_vars

(***************************************************************************)
(* Properties of cache I/O failures (SpecDisk).                            *)
(***************************************************************************)
\* What a complete fetch of a key returns.
FullResult(tk) ==
    IF tk.kind = "colls"
    THEN [i \in 1..Len(Tables) |-> tableNameItem(PlainText(Tables[i]))]
    ELSE SortedSeq({i \in 1..tbl[tk.tableName].n : TRUE})

\* A command whose cache file could not be opened or decoded went on to the
\* synchronous fetch; a FetchErrorMsg always comes from the service, never from the
\* cache; and a fetch whose SaveCache failed returned its items as a success.
C24_CommandsSurviveCacheErrors ==
    \A k \in DOMAIN msgs :
        LET e == msgs[k]
        IN  /\ (~e.tk.loaded \/ ~e.tk.cache.ok) => (e.tk.fetched /\ ~e.tk.hit /\ e.tk.spawned = 0)
            /\ e.msg.type = "FetchErrorMsg" =>
                  /\ e.tk.fetched
                  /\ e.tk.saveErr = ""
                  /\ \/ e.tk.kind = "colls" /\ e.msg.err = "list tables failed"
                     \/ e.tk.describeErr # ""
                     \/ WorkerFailedIn(e.workers)
            /\ e.tk.saveErr # "" =>
                  /\ e.tk.fetched
                  /\ e.msg.type = SuccessType(e.tk.kind)
                  /\ e.msg.items = e.tk.items
                  /\ Len(e.msg.items) = Len(FullResult(e.tk))

\* A background refresh whose SaveCache fails ends with its fetch a success.
C24_RefreshSurvivesWriteError ==
    \A t \in TaskIds :
        (task[t].bg /\ task[t].pc \in {"create", "encode"} /\ task'[t].kind = "none" /\ ~diskOK)
            => /\ task'[t].result.type = SuccessType(task[t].kind)
               /\ msgs' = msgs

\* C24: cache I/O failures are recoverable.  A cache file that cannot be opened or
\* decoded counts as an absent record and the read goes on to the synchronous fetch;
\* when persisting a fetched result fails, the fetch still returns the result as a
\* success.
C24_CacheErrorsRecoverable ==
    [] C24_CommandsSurviveCacheErrors /\ [][C24_RefreshSurvivesWriteError]_vars

\* A command found a cut-off cache file, fetched table A's rows, lost the disk while
\* writing them, and returned them.
C24_Witness ==
    \E k \in DOMAIN msgs :
        LET e == msgs[k]
        IN  /\ e.tk.kind = "rows"
            /\ e.tk.loaded
            /\ ~e.tk.cache.ok
            /\ e.tk.fetched
            /\ e.tk.saveErr = "write failed"
            /\ ~e.tk.afterSave.ok
            /\ e.msg.type = "DataFetchedMsg"
            /\ e.msg.items # <<>>

\* A command found no cache file, fetched the collections and could not create the
\* cache directory.
C24_WitnessMkdir ==
    \E k \in DOMAIN msgs :
        LET e == msgs[k]
        IN  /\ e.tk.kind = "colls"
            /\ ~e.tk.loaded
            /\ e.tk.saveErr = "mkdir failed"
            /\ e.msg.type = "TablesFetchedMsg"
            /\ e.msg.items # <<>>
            /\ \A p \in Paths : files[p] = NoFile

(***************************************************************************)
(* Properties of the workers' pagination (SpecScan).                       *)
(***************************************************************************)
\* Whether token k, if there is one, was returned for segment seg of total.
OfSegment(k, seg, total) == k.isNil \/ SegmentOf(IdOfKey(k), total) = seg

\* Every token a worker holds was returned to it for its own segment, a worker that
\* has not read holds none, and the input of the read a worker is processing is built
\* from its own startKey and segment.
C25_OwnTokens ==
    \A t \in TaskIds : \A i \in DOMAIN wk[t] :
        LET w == wk[t][i]
        IN  /\ OfSegment(w.startKey, i - 1, task[t].numSegments)
            /\ OfSegment(w.lek, i - 1, task[t].numSegments)
            /\ w.reads = 0 => (w.startKey.isNil /\ w.lek.isNil /\ w.pc = "scan")
            /\ w.reads >= 1 =>
                  /\ w.input.Segment = i - 1
                  /\ OfSegment(w.input.ExclusiveStartKey, i - 1, task[t].numSegments)
            /\ (w.reads = 1 /\ w.pc \in {"lock", "append"}) => w.input.ExclusiveStartKey.isNil

\* A page read is issued by a worker that has no read outstanding, and carries the
\* sanitized form of the token its previous read returned: none on the first read.
C25_NextReadUsesLastToken ==
    \A t \in TaskIds : \A i \in DOMAIN wk[t] :
        (i \in DOMAIN wk'[t] /\ wk'[t][i].reads = wk[t][i].reads + 1) =>
            /\ wk[t][i].pc = "scan"
            /\ wk'[t][i].input.Segment = i - 1
            /\ wk'[t][i].input.ExclusiveStartKey =
                  validateExclusiveStartKey(wk[t][i].lek, task[t].partitionKey, task[t].sortKey)
            /\ wk[t][i].reads = 0 => wk'[t][i].input.ExclusiveStartKey.isNil
            /\ \A j \in DOMAIN wk[t] \ {i} : wk'[t][j] = wk[t][j]

\* C25: pagination within a segment is sequential.  A worker's first page read carries
\* no token, each later one the sanitized token its own previous read returned, one
\* read at a time, and never a token returned to another segment.
C25_SegmentLocalPagination == [] C25_OwnTokens /\ [][C25_NextReadUsesLastToken]_vars

\* Two workers are each processing a second page, read with the token of their own
\* first page; the two tokens differ.
C25_Witness ==
    \E t \in TaskIds : \E i, j \in DOMAIN wk[t] :
        /\ i # j
        /\ wk[t][i].reads = 2 /\ wk[t][i].pc = "lock"
        /\ wk[t][j].reads = 2 /\ wk[t][j].pc = "lock"
        /\ ~wk[t][i].input.ExclusiveStartKey.isNil
        /\ ~wk[t][j].input.ExclusiveStartKey.isNil
        /\ wk[t][i].input.ExclusiveStartKey # wk[t][j].input.ExclusiveStartKey
        /\ wk[t][i].input.ExclusiveStartKey.m = wk[t][i].startKey.m

(***************************************************************************)
(* Properties of the fetch protocol (SpecUI).                              *)
(***************************************************************************)
\* C26: the success transitions of the fetch protocol, as the model stands from the
\* moment Update processed the event until it processes the next one.  The start
\* event sets loading and issues the collections fetch, which is then in flight; TablesFetchedMsg replaces the collections list by the items of
\* the message and clears loading, the view state staying as it was; DataFetchedMsg
\* replaces the row list by the items of the message, the rows the fetch command that
\* just completed returned, clears loading and sets ViewingData.
C26_SuccessTransitions ==
    /\ ui.last = "TablesFetchStartedMsg" =>
          /\ ui.m.loading
          /\ InFlight(fetchCollections.cmd) # {}
          /\ ui.m.state = ui.from
    /\ ui.last = "TablesFetchedMsg" =>
          /\ ~ui.m.loading
          /\ ui.m.collectionsList.items = ui.items
          /\ ui.m.state = ui.from
    /\ ui.last = "DataFetchedMsg" =>
          /\ ~ui.m.loading
          /\ ui.log # <<>>
          /\ ui.log[Len(ui.log)].e = "completed"
          /\ ui.log[Len(ui.log)].type = "DataFetchedMsg"
          /\ ui.m.dataList.items = ui.items
          /\ ui.m.state = "ViewingData"

\* The rows fetched of table B have just replaced the rows of table A, shown before.
C26_Witness ==
    /\ ui.last = "DataFetchedMsg"
    /\ Len(ui.log) = 4
    /\ ui.log[2].type = "DataFetchedMsg"
    /\ ui.log[2].tableName = PlainText("A")
    /\ ui.log[4].type = "DataFetchedMsg"
    /\ ui.log[4].tableName = PlainText("B")
    /\ ui.m.dataList.items = ui.items
    /\ ui.items = TableRows("B")
    /\ Len(ui.m.collectionsList.items) = Len(Tables)
    /\ ~ui.m.loading

(***************************************************************************)
(* Termination of the scan (SpecDeadline: every call returns, in time or   *)
(* with the deadline's error, and the goroutines are scheduled fairly).    *)
(***************************************************************************)
\* The number of records of table t in segment seg of total.
SegmentSize(t, seg, total) == Cardinality({i \in 1..tbl[t].n : SegmentOf(i, total) = seg})

\* The page reads of worker w of segment seg: one for each token received so far, one
\* more once it has stopped, and, if every page that came with a token was full, no
\* more than the full pages of the segment plus one.
ReadsOf(w, t, seg, total) ==
    /\ w.pc = "scan" => w.reads = w.tokens
    /\ w.pc \in {"lock", "append"} => w.reads = w.tokens + (IF w.lek.isNil THEN 1 ELSE 0)
    /\ w.pc = "done" => (w.reads >= 1 /\ w.reads = w.tokens + 1)
    /\ ~w.short => w.reads <= (SegmentSize(t, seg, total) \div Min(ScanLimit, MaxPage)) + 1

C27_ReadCounts ==
    /\ \A t \in TaskIds : \A i \in DOMAIN wk[t] :
          ReadsOf(wk[t][i], task[t].tableName, i - 1, task[t].numSegments)
    /\ \A k \in DOMAIN msgs : \A i \in DOMAIN msgs[k].workers :
          /\ msgs[k].workers[i].pc = "done"
          /\ ReadsOf(msgs[k].workers[i], msgs[k].tk.tableName, i - 1, msgs[k].tk.numSegments)
    /\ (250 \div ScanLimit) + 1 = 3

C27_Returned == Len(msgs) = 1 /\ \A t \in TaskIds : task[t].kind = "none"

\* C27: the scan terminates.  Every worker issues at least one page read and exactly
\* one more than the tokens it received, then stops; all workers finish and the scan
\* returns a result.  With full pages a segment of K records takes at most
\* K / Limit + 1 page reads: 3 for 250 records at 100 a page.
C27_ScanTerminates == [] C27_ReadCounts /\ <> C27_Returned

\* A scan over two segments returned its rows; the worker of the segment of two
\* records read a full page with a token and then an empty last page.
C27_Witness ==
    /\ Len(msgs) = 1
    /\ msgs[1].msg.type = "DataFetchedMsg"
    /\ Len(msgs[1].workers) = 2
    /\ msgs[1].workers[1].reads = 2
    /\ msgs[1].workers[1].tokens = 1
    /\ ~msgs[1].workers[1].short
    /\ msgs[1].workers[2].reads = 1
    /\ ~msgs[1].tk.expired

(***************************************************************************)
(* Properties of the error channel (SpecScan).                             *)
(***************************************************************************)
\* The error of a failed scan is the one at the head of its error channel.
C28_HeadIsReported ==
    \A k \in DOMAIN msgs :
        WorkerFailedIn(msgs[k].workers) =>
            /\ msgs[k].tk.errChan # <<>>
            /\ msgs[k].msg = FetchErrorMsg(msgs[k].tk.errChan[1])

\* The channel is a queue: a worker that fails sends its own error to the end of it,
\* and what was sent before stays in place.
C28_SendsKeepOrder ==
    \A t \in TaskIds :
        (t \in DOMAIN task' /\ task'[t].kind # "none" /\ task'[t].errChan # task[t].errChan) =>
            \E i \in DOMAIN wk[t] :
                /\ ~wk[t][i].failed
                /\ wk'[t][i].failed
                /\ task'[t].errChan =
                      Append(task[t].errChan, "scan failed: segment " \o ToString(i - 1))

\* C28: when several workers fail in one scan, the FetchErrorMsg carries the error of
\* the worker that sent first on the error channel.
C28_FirstErrorWins == [] C28_HeadIsReported /\ [][C28_SendsKeepOrder]_vars

\* Both workers of a scan failed, segment 1 before segment 0, and the scan reported
\* the error of segment 1.
C28_Witness ==
    \E k \in DOMAIN msgs :
        /\ msgs[k].tk.errChan = <<"scan failed: segment 1", "scan failed: segment 0">>
        /\ msgs[k].msg.err = "scan failed: segment 1"
        /\ msgs[k].workers[1].failed
        /\ msgs[k].workers[2].failed

(***************************************************************************)
(* Properties of the record accumulator (SpecScan).                        *)
(***************************************************************************)
\* The records the workers ws converted, over all the pages they read.
RECURSIVE SumConverted(_)
SumConverted(ws) == IF ws = <<>> THEN 0 ELSE Head(ws).converted + SumConverted(Tail(ws))

\* The rows of the page each worker is holding and has not appended yet.
RECURSIVE SumPending(_)
SumPending(ws) == IF ws = <<>> THEN 0 ELSE Len(Head(ws).jsonItems) + SumPending(Tail(ws))

\* At most one worker is between mu.Lock() and mu.Unlock(), it is the holder of the
\* mutex, and the accumulator holds what was converted less what is still pending;
\* when all workers have finished, it holds all of it.
C30_OneAppender ==
    /\ \A t \in TaskIds :
          /\ \A i, j \in DOMAIN wk[t] :
                (wk[t][i].pc = "append" /\ wk[t][j].pc = "append") => i = j
          /\ \A i \in DOMAIN wk[t] : wk[t][i].pc = "append" <=> task[t].mu = i
          /\ task[t].pc = "launch" =>
                Len(task[t].items) + SumPending(wk[t]) = SumConverted(wk[t])
    /\ \A k \in DOMAIN msgs :
          msgs[k].workers # <<>> => Len(msgs[k].tk.items) = SumConverted(msgs[k].workers)

\* The accumulator changes only by the holder of the mutex appending the rows of its
\* page, whole and in order, at the end.
C30_AppendsWholePages ==
    \A t \in TaskIds :
        (t \in DOMAIN task' /\ task'[t].kind # "none" /\ task'[t].items # task[t].items) =>
            \E i \in DOMAIN wk[t] :
                /\ wk[t][i].pc = "append"
                /\ task[t].mu = i
                /\ task'[t].items = task[t].items \o wk[t][i].jsonItems
                /\ task'[t].mu = 0

\* C30: the accumulator is appended to only under the scan's mutex.  No two workers
\* append at once, a page's rows go in as one block, and when all workers have finished
\* its length is the number of records converted over all pages read.
C30_AccumulatorUnderMutex == [] C30_OneAppender /\ [][C30_AppendsWholePages]_vars

\* One worker holds the mutex with a page of two rows to append while another waits
\* for it with a page of its own.
C30_Witness ==
    \E t \in TaskIds : \E i, j \in DOMAIN wk[t] :
        /\ wk[t][i].pc = "append"
        /\ Len(wk[t][i].jsonItems) = 2
        /\ wk[t][j].pc = "lock"
        /\ wk[t][j].jsonItems # <<>>
        /\ task[t].mu = i

(***************************************************************************)
(* The error channel never blocks a worker (SpecDeadline).                 *)
(***************************************************************************)
\* The workers of ws that sent an error.
RECURSIVE SumFailed(_)
SumFailed(ws) == IF ws = <<>> THEN 0 ELSE (IF Head(ws).failed THEN 1 ELSE 0) + SumFailed(Tail(ws))

\* Each worker sends at most one error and returns with it, the channel holds one
\* error for each worker that failed, and while a worker is still running the channel
\* has room for its send.
C31_SendNeverBlocks ==
    /\ \A t \in TaskIds :
          task[t].pc = "launch" =>
             /\ Len(wk[t]) <= task[t].numSegments
             /\ Len(task[t].errChan) = SumFailed(wk[t])
             /\ \A i \in DOMAIN wk[t] :
                   /\ wk[t][i].failed => wk[t][i].pc = "done"
                   /\ wk[t][i].pc # "done" =>
                         Len(task[t].errChan) < ErrChanCapacity(task[t].numSegments)
    /\ \A k \in DOMAIN msgs :
          /\ Len(msgs[k].tk.errChan) = SumFailed(msgs[k].workers)
          /\ Len(msgs[k].tk.errChan) <= ErrChanCapacity(msgs[k].tk.numSegments)

\* The scan is past wg.Wait(): it returned, with every one of its workers done.
C31_WaitReturned ==
    \E k \in DOMAIN msgs :
        /\ Len(msgs[k].workers) = msgs[k].tk.numSegments
        /\ \A i \in DOMAIN msgs[k].workers : msgs[k].workers[i].pc = "done"

\* C31: the scan cannot deadlock on its error channel.  The channel has room for one
\* error of each worker and a worker sends at most one, so no send blocks, every
\* worker finishes and wg.Wait() returns, also when all workers fail.
C31_NoErrChanDeadlock ==
    /\ [] C31_SendNeverBlocks
    /\ (\E t \in TaskIds : task[t].pc = "launch") ~> C31_WaitReturned

\* A scan over two segments returned after both of its workers failed, the second
\* sending its error while the first one's was still in the channel.
C31_Witness ==
    \E k \in DOMAIN msgs :
        /\ msgs[k].tk.numSegments = 2
        /\ Len(msgs[k].tk.errChan) = 2
        /\ \A i \in DOMAIN msgs[k].workers : msgs[k].workers[i].failed
        /\ msgs[k].msg.type = "FetchErrorMsg"

(***************************************************************************)
(* Which rows fetches the select key issues (SpecUI).                      *)
(***************************************************************************)
\* The step issued a rows fetch: Update returned a fetchAllData command.
IssuesFetch == Len(ui'.log) > Len(ui.log) /\ ui'.log[Len(ui'.log)].e = "issued"

C32_IssuedForSelection ==
    IssuesFetch =>
        /\ ui.m.state = "ViewingCollections"
        /\ SelectedItem(ui.m.collectionsList).ok
        /\ ui'.log[Len(ui'.log)].tableName = FilterValue(SelectedItem(ui.m.collectionsList).item)
        /\ ui'.log[Len(ui'.log)].tableName # PlainText("")

\* C32: a rows fetch is only ever issued for the table that is the selected item of
\* the collections list at the time of the key press; with no selected item the
\* select key issues no fetch, not for the empty name and not for an earlier table.
C32_FetchOnlySelected == [][C32_IssuedForSelection]_vars

(***************************************************************************)
(* The loading flag while fetches are outstanding (SpecUI).                *)
(***************************************************************************)
\* C33: while a collections fetch or a rows fetch that was issued has not delivered
\* its message to Update, the loading flag is true; the completion of one fetch does
\* not clear it while another is outstanding.
C33_LoadingWhileOutstanding ==
    (InFlight("fetchCollections") \cup InFlight("fetchAllData") # {}) => ui.m.loading

(***************************************************************************)
(* The select key while the collections list is filtering (SpecUI).        *)
(***************************************************************************)
\* The collections list has the focus and is taking filter text.
FilteringCollections(m) ==
    m.state = "ViewingCollections" /\ m.collectionsList.filterState = "Filtering"

C34_SelectHeldBack ==
    (FilteringCollections(ui.m) /\ ui'.held) =>
        /\ ~IssuesFetch
        /\ \A i \in DOMAIN cmds' : cmds'[i].cmd = "fetchAllData" => i \in DOMAIN cmds /\ cmds[i] = cmds'[i]
        /\ ui'.m.selectedTable = ui.m.selectedTable
        /\ ui'.m.loading = ui.m.loading
        /\ ui'.m.state = ui.m.state

\* C34: while the collections list is filtering, the select key issues no rows fetch
\* and changes neither selectedTable nor the loading flag nor the view state.
C34_NoSelectWhileFiltering == [][C34_SelectHeldBack]_vars

\* The select key was just pressed in ViewingCollections with tables listed, and yet
\* no table is selected and no fetch was ever issued: the list was filtering.
C34_Witness ==
    /\ ui.held
    /\ ui.from = "ViewingCollections"
    /\ ui.m.state = "ViewingCollections"
    /\ ui.m.collectionsList.items # <<>>
    /\ ui.m.collectionsList.filterState = "Unfiltered"
    /\ ui.m.selectedTable = PlainText("")
    /\ ui.log = <<>>

(***************************************************************************)
(* Navigation between the view states by key presses (SpecUI).             *)
(***************************************************************************)
\* The select-row key would open a row: the row list is not filtering and has a
\* selected row.
CanOpenRow(m) == m.dataList.filterState # "Filtering" /\ SelectedItem(m.dataList).ok

\* The view state the navigation rules give after key k is pressed in model m.
NextViewState(m, k) ==
    IF m.state = "ViewingRow" THEN (IF k = "esc" THEN "ViewingData" ELSE "ViewingRow")
    ELSE IF m.state = "ViewingData"
    THEN (IF k = "esc" THEN "ViewMode"
          ELSE IF k = "enter" /\ CanOpenRow(m) THEN "ViewingRow" ELSE "ViewingData")
    ELSE IF m.state = "ViewingCollections"
    THEN (IF k = "esc" THEN "ViewMode" ELSE "ViewingCollections")
    ELSE (IF k = "d" THEN "ViewingData" ELSE IF k = "c" THEN "ViewingCollections" ELSE "ViewMode")

\* In every model the program reaches, each key leads where the rules say.
C35_KeysFollowRules ==
    \A k \in Keys : Update(ui.m, KeyMsg(k)).m.state = NextViewState(ui.m, k)

\* A key press moves along one of the five edges or stays, and ViewingRow is never
\* entered by anything but a key press in ViewingData with a row to open.
C35_OnlyRuleEdges ==
    /\ (ui'.last = "KeyMsg" /\ ui'.m.state # ui.m.state) =>
          <<ui.m.state, ui'.m.state>> \in
              {<<"ViewingData", "ViewingRow">>, <<"ViewingRow", "ViewingData">>,
               <<"ViewingCollections", "ViewMode">>, <<"ViewingData", "ViewMode">>,
               <<"ViewMode", "ViewingData">>, <<"ViewMode", "ViewingCollections">>}
    /\ (ui'.m.state = "ViewingRow" /\ ui.m.state # "ViewingRow") =>
          /\ ui'.last = "KeyMsg"
          /\ ui.m.state = "ViewingData"
          /\ CanOpenRow(ui.m)
          /\ ui'.m.selectedRow = FilterValue(SelectedItem(ui.m.dataList).item)

\* C35: view-state navigation.  ViewingRow is entered only from ViewingData by the
\* select-row key when the row list is not filtering and has a selected row; escape
\* leads from ViewingRow to ViewingData and from ViewingCollections and ViewingData to
\* ViewMode; from ViewMode the data key leads to ViewingData and the collections key
\* to ViewingCollections; no other key press changes the view state.
C35_Navigation == [] C35_KeysFollowRules /\ [][C35_OnlyRuleEdges]_vars

\* A row was opened from the data view and is shown in the viewport.
C35_Witness ==
    /\ ui.last = "KeyMsg"
    /\ ui.from = "ViewingData"
    /\ ui.m.state = "ViewingRow"
    /\ ui.m.selectedRow \in {FilterValue(ui.m.dataList.items[i]) : i \in DOMAIN ui.m.dataList.items}

\* The escape key closed the row that was open.
C35_WitnessBack ==
    /\ ui.last = "KeyMsg"
    /\ ui.from = "ViewingRow"
    /\ ui.m.state = "ViewingData"

(***************************************************************************)
(* SpecRoundTrip: fetchAllData is run twice on table "A", the second time  *)
(* after the first has returned, over one or two segments and a table of   *)
(* 0..MaxRecords records.  What the first run saved is what the second      *)
(* loads.                                                                  *)
(***************************************************************************)
InitRoundTrip ==
    /\ numCPU \in {2, 4}
    /\ keySchema = <<[AttributeName |-> "pk", KeyType |-> "HASH"]>>
    /\ \E n \in 0..MaxRecords :
          tbl = [t \in TableNames |-> IF t = "A" THEN [n |-> n, bad |-> {}]
                                      ELSE [n |-> 0, bad |-> {}]]
    /\ clock = CacheDuration
    /\ diskOK = TRUE
    /\ files \in {[p \in Paths |-> NoFile], OldFiles}
    /\ task = [t \in 1..MaxTasks |-> NoTask]
    /\ wk = [t \in 1..MaxTasks |-> <<>>]
    /\ msgs = <<>>
    /\ ui = UIIdle
    /\ cmds = <<>>
    /\ conv = NoConv

NextRoundTrip ==
    \/ \E t \in AllIds : (\A u \in TaskIds : task[u].kind = "none") /\ RunCommand(t, "rows", "A", 2)
    \/ \E t \in AllIds : LoadCacheOpen(t)
    \/ \E t \in AllIds : LoadCacheDecode(t)
    \/ \E t \in AllIds : ReturnCached(t)
    \/ \E t \in AllIds : DescribeTable(t)
    \/ \E t \in AllIds : LaunchWorker(t)
    \/ \E t \in AllIds, s \in Segments : WorkerScan(t, s)
    \/ \E t \in AllIds, s \in Segments : WorkerLock(t, s)
    \/ \E t \in AllIds, s \in Segments : WorkerAppend(t, s)
    \/ \E t \in AllIds : FinishScan(t)
    \/ \E t \in AllIds : SaveCacheCreate(t)
    \/ \E t \in AllIds : SaveCacheEncode(t)

SpecRoundTrip == InitRoundTrip /\ [][NextRoundTrip]_vars

\* A fetch that saved its items left a record that loads as exactly their strings, in
\* their order; and the run that follows it loads that record, is served from it and
\* returns the same message, rows in the same order.
C37_LoadsWhatWasSaved ==
    /\ \A k \in DOMAIN msgs :
          (msgs[k].tk.wrote /\ msgs[k].tk.saveErr = "") =>
             /\ msgs[k].tk.afterSave.ok
             /\ msgs[k].tk.afterSave.Data = Contents(msgs[k].msg.items)
             /\ Len(msgs[k].tk.afterSave.Data) = Len(msgs[k].msg.items)
    /\ (Len(msgs) >= 2 /\ msgs[1].tk.wrote) =>
          /\ msgs[2].tk.hit
          /\ msgs[2].tk.cache = msgs[1].tk.afterSave
          /\ msgs[2].msg = msgs[1].msg

\* C37: cache round trip.  With no concurrent writer, LoadCache of a file written by
\* SaveCache(items) succeeds and returns the items' string values in the same order,
\* for sequences of every length from the empty one on, so a fresh hit shows the rows
\* of the fetch that wrote them.
C37_CacheRoundTrip == [] C37_LoadsWhatWasSaved

\* The second run was served three rows that the first had fetched over two segments
\* and saved in an order other than the table's.
C37_Witness ==
    /\ Len(msgs) = 2
    /\ msgs[1].tk.wrote
    /\ msgs[2].tk.hit
    /\ Len(msgs[2].msg.items) = 3
    /\ msgs[2].msg.items # TableRows("A")
    /\ msgs[2].msg.items = msgs[1].msg.items

\* The second run was served the empty sequence that the first had saved.
C37_WitnessEmpty ==
    /\ Len(msgs) = 2
    /\ msgs[1].tk.wrote
    /\ msgs[2].tk.hit
    /\ msgs[2].msg = DataFetchedMsg(<<>>)

(***************************************************************************)
(* One worker per segment (SpecScan).                                      *)
(***************************************************************************)
\* Worker number i of a scan of n segments on table name, if it has read a page, read
\* it as segment i - 1 of n of that table.
OwnSegment(w, i, n, name) ==
    w.reads >= 1 =>
        /\ w.input.Segment = i - 1
        /\ w.input.TotalSegments = n
        /\ w.input.TableName = name

\* The returned scan e got past DescribeTable and the key schema, so it ran the
\* launch loop and waited for its workers.
RanWorkers(e) ==
    /\ e.tk.kind = "rows"
    /\ e.tk.fetched
    /\ e.tk.describeErr = ""
    /\ e.tk.partitionKey # ""

\* No more workers than segments are launched; a scan that returned after its launch
\* loop, with rows or with a worker's error, had launched exactly one worker for each
\* of its N = NumCPU / 2 segments, each of them read at least one page, the last page
\* read of each was for its own segment, and no two of them read the same segment.
C36_WorkerPerSegment ==
    /\ \A t \in TaskIds :
          /\ Len(wk[t]) <= task[t].numSegments
          /\ \A i \in DOMAIN wk[t] :
                OwnSegment(wk[t][i], i, task[t].numSegments, task[t].tableName)
    /\ \A k \in DOMAIN msgs :
          RanWorkers(msgs[k]) =>
             /\ Len(msgs[k].workers) = msgs[k].tk.numSegments
             /\ msgs[k].tk.numSegments = SegmentCount(numCPU)
             /\ \A i \in DOMAIN msgs[k].workers :
                   /\ msgs[k].workers[i].reads >= 1
                   /\ OwnSegment(msgs[k].workers[i], i, msgs[k].tk.numSegments, msgs[k].tk.tableName)
             /\ \A i, j \in DOMAIN msgs[k].workers :
                   i # j => msgs[k].workers[i].input.Segment # msgs[k].workers[j].input.Segment
    /\ \A k \in DOMAIN msgs :
          (msgs[k].tk.kind = "rows" /\ msgs[k].tk.fetched /\ msgs[k].msg.type = "DataFetchedMsg")
             => RanWorkers(msgs[k])

\* Every page read of worker i is made with segment index i - 1, the scan's segment
\* count and the scan's table name.
C36_EveryReadOwnSegment ==
    \A t \in TaskIds : \A i \in DOMAIN wk[t] :
        (i \in DOMAIN wk'[t] /\ wk'[t][i].reads > wk[t][i].reads) =>
            /\ wk'[t][i].input.Segment = i - 1
            /\ wk'[t][i].input.TotalSegments = task[t].numSegments
            /\ wk'[t][i].input.TableName = task[t].tableName

\* C36: a scan of N segments launches exactly N workers; worker i uses segment index i
\* in all its page reads, no two workers share an index, and every page read carries
\* the total N and the same table name.
C36_OneWorkerPerSegment == [] C36_WorkerPerSegment /\ [][C36_EveryReadOwnSegment]_vars

\* A scan over three segments returned; one of its workers read more than one page.
C36_Witness ==
    \E k \in DOMAIN msgs :
        /\ Len(msgs[k].workers) = 3
        /\ msgs[k].msg.type = "DataFetchedMsg"
        /\ \E i \in DOMAIN msgs[k].workers : msgs[k].workers[i].reads >= 2
        /\ \A i \in DOMAIN msgs[k].workers : msgs[k].workers[i].input.TotalSegments = 3

(***************************************************************************)
(* SpecLegacy: the first table-list program, cmd/main/main.go.  Its model  *)
(* holds the table names, the filter text of a text input, the filtered    *)
(* names and a selection with a scroll offset over five visible rows.  A   *)
(* text is the sequence of its characters.  Not modelled: the cursor of    *)
(* the text input, which stays at the end of the text, and the region.     *)
(***************************************************************************)
MaxFilter == 2   \* characters typed into the filter of the legacy model
CharLimit == 156          \* ti.CharLimit = 156

\* strings.ToLower, on the letters that occur here.
ToLower(s) ==
    [i \in 1..Len(s) |-> CASE s[i] = "D" -> "d"
                           [] s[i] = "J" -> "j"
                           [] s[i] = "S" -> "s"
                           [] OTHER -> s[i]]

\* for i := 0; i < len(tableLower) && matchIndex < len(filterText); i++: the value of
\* matchIndex when the loop ends.
RECURSIVE matchLoop(_, _, _, _)
matchLoop(tableLower, filterText, i, matchIndex) ==
    IF i < Len(tableLower) /\ matchIndex < Len(filterText)
    THEN matchLoop(tableLower, filterText, i + 1,
                   IF tableLower[i + 1] = filterText[matchIndex + 1]
                   THEN matchIndex + 1 ELSE matchIndex)
    ELSE matchIndex

\* Mutant: the filter text is compared as typed.
FilterTablesCaseSensitive(tables, filterText) ==
    SelectSeq(tables, LAMBDA table : matchLoop(ToLower(table), filterText, 0, 0) = Len(filterText))

\* tools.FilterTables
FilterTables(tables, filterText) ==
    LET lowered == ToLower(filterText)
    IN  SelectSeq(tables, LAMBDA table : matchLoop(ToLower(table), lowered, 0, 0) = Len(lowered))

\* func filterTables of cmd/main/main.go, the same loop.
filterTables(tables, filterText) ==
    LET lowered == ToLower(filterText)
    IN  SelectSeq(tables, LAMBDA table : matchLoop(ToLower(table), lowered, 0, 0) = Len(lowered))

\* func initialModel() model
initialModel ==
    [focus |-> "focusTableInput", tableInput |-> [focused |-> TRUE, value |-> <<>>],
     loading |-> TRUE, tables |-> <<>>, filtered |-> <<>>,
     scrollOffset |-> 0, selectedIndex |-> 0, ddBuffer |-> ""]

\* Mutant: a filter edit leaves the selection and the scroll offset where they were.
FocusedKeyKeepsSelection(m, k) ==
    LET v == m.tableInput.value
        value == IF k = "backspace" THEN SubSeq(v, 1, Len(v) - 1)
                 ELSE IF k \notin {"esc", "enter", "ctrl+c"} /\ Len(v) < CharLimit
                 THEN Append(v, k) ELSE v
    IN  [m EXCEPT !.tableInput.value = value,
                  !.filtered = filterTables(m.tables, value)]

\* Update, the block `if m.tableInput.Focused()`: the text input takes the key, one
\* character typed at the end or backspace, and the names are filtered again.
FocusedKey(m, k) ==
    LET v == m.tableInput.value
        value == IF k = "backspace" THEN SubSeq(v, 1, Len(v) - 1)
                 ELSE IF k \notin {"esc", "enter", "ctrl+c"} /\ Len(v) < CharLimit
                 THEN Append(v, k) ELSE v
    IN  [m EXCEPT !.tableInput.value = value,
                  !.filtered = filterTables(m.tables, value),
                  !.selectedIndex = 0,
                  !.scrollOffset = 0]

\* Update, the block `if m.focus == focusTableList`: the model and whether the block
\* returned.
ListKey(m, k) ==
    IF m.focus # "focusTableList" THEN [m |-> m, ret |-> FALSE]
    ELSE IF k = "j"
    THEN [m |-> IF m.selectedIndex < Len(m.filtered) - 1
                THEN [m EXCEPT !.selectedIndex = @ + 1,
                               !.scrollOffset = IF m.selectedIndex + 1 >= @ + 5 THEN @ + 1 ELSE @]
                ELSE m,
          ret |-> FALSE]
    ELSE IF k = "k"
    THEN [m |-> IF m.selectedIndex > 0
                THEN [m EXCEPT !.selectedIndex = @ - 1,
                               !.scrollOffset = IF m.selectedIndex - 1 < @ THEN @ - 1 ELSE @]
                ELSE m,
          ret |-> FALSE]
    ELSE IF k = "l" THEN [m |-> [m EXCEPT !.focus = "focusRight"], ret |-> TRUE]
    ELSE [m |-> m, ret |-> FALSE]

\* func (m model) Update(msg tea.Msg) (tea.Model, tea.Cmd) of cmd/main/main.go; quick
\* says whether the key came less than 500 ms after lastKeyTime.
modelUpdate(m, msg, quick) ==
    IF msg.type = "tablesFetchedMsg"
    THEN [m |-> [m EXCEPT !.tables = msg.items, !.filtered = msg.items, !.loading = FALSE],
          quit |-> FALSE]
    ELSE LET k == msg.key
             l == ListKey(m, k)
             idle == l.m.focus = "focusTableInput" /\ ~l.m.tableInput.focused
         IN  IF k = "esc" /\ m.tableInput.focused
             THEN [m |-> [m EXCEPT !.tableInput.focused = FALSE, !.ddBuffer = ""], quit |-> FALSE]
             ELSE IF k = "enter" /\ m.tableInput.focused /\ ~m.loading
             THEN [m |-> [m EXCEPT !.tableInput.focused = FALSE, !.focus = "focusTableList"],
                   quit |-> FALSE]
             ELSE IF m.tableInput.focused THEN [m |-> FocusedKey(m, k), quit |-> FALSE]
             ELSE IF l.ret THEN [m |-> l.m, quit |-> FALSE]
             ELSE IF k \in {"ctrl+c", "q"} THEN [m |-> l.m, quit |-> TRUE]
             ELSE IF k = "s"
             THEN [m |-> [l.m EXCEPT !.focus = "focusTableInput", !.tableInput.focused = TRUE],
                   quit |-> FALSE]
             ELSE IF k = "d"
             THEN [m |-> IF ~idle THEN l.m
                         ELSE IF l.m.ddBuffer = "d" /\ quick
                         THEN [l.m EXCEPT !.tableInput.value = <<>>,
                                          !.filtered = filterTables(l.m.tables, <<>>),
                                          !.ddBuffer = ""]
                         ELSE [l.m EXCEPT !.ddBuffer = "d"],
                   quit |-> FALSE]
             ELSE IF k = "i"
             THEN [m |-> IF idle THEN [l.m EXCEPT !.tableInput.focused = TRUE] ELSE l.m,
                   quit |-> FALSE]
             ELSE [m |-> [l.m EXCEPT !.ddBuffer = ""], quit |-> FALSE]

\* tea.NewProgram(initialModel()).Run(): Init returns the command fetchTables.
InitLegacy ==
    /\ numCPU = 2
    /\ keySchema = <<[AttributeName |-> "pk", KeyType |-> "HASH"]>>
    /\ tbl = [t \in TableNames |-> [n |-> 0, bad |-> {}]]
    /\ clock = 0
    /\ diskOK = TRUE
    /\ files = [p \in Paths |-> NoFile]
    /\ task = [t \in {} |-> NoTask]
    /\ wk = [t \in {} |-> <<>>]
    /\ msgs = <<>>
    /\ ui = [m |-> initialModel, quit |-> FALSE, op |-> "none"]
    /\ cmds = <<Cmd("fetchTables", PlainText(""))>>
    /\ conv = NoConv

\* The user presses key k.  A character is typed into the filter only while the
\* text is shorter than MaxFilter.
LegacyKeyPress(k) ==
    /\ ~ui.quit
    /\ (ui.m.tableInput.focused /\ k \notin {"esc", "enter", "backspace", "ctrl+c"})
          => Len(ui.m.tableInput.value) < MaxFilter
    /\ \E quick \in BOOLEAN :
          LET r == modelUpdate(ui.m, KeyMsg(k), quick)
          IN  ui' = [m |-> r.m, quit |-> r.quit,
                     op |-> IF /\ ui.m.tableInput.focused
                               /\ k # "esc"
                               /\ ~(k = "enter" /\ ~ui.m.loading)
                            THEN "filter" ELSE "key"]
    /\ UNCHANGED <<conv, numCPU, keySchema, tbl, clock, diskOK, files, task, wk, msgs, cmds>>

\* fetchTables completes: the account has no table, two tables or seven, and the
\* message reaches Update; or a page fails and log.Fatalf ends the program.
TablesFetched ==
    /\ ~ui.quit
    /\ cmds # <<>>
    /\ cmds' = <<>>
    /\ \/ \E tableNames \in {<<>>,
                             <<<<"d", "j">>, <<"J", "q", "D">>>>,
                             <<<<"d", "j">>, <<"D", "s">>, <<"j", "d">>, <<"s">>,
                               <<"J", "q", "D">>, <<"i", "d">>, <<"l", "k">>>>} :
             ui' = [m |-> modelUpdate(ui.m, [type |-> "tablesFetchedMsg", items |-> tableNames],
                                      FALSE).m,
                    quit |-> FALSE, op |-> "fetched"]
       \/ ui' = [ui EXCEPT !.quit = TRUE, !.op = "fatal"]
    /\ UNCHANGED <<conv, numCPU, keySchema, tbl, clock, diskOK, files, task, wk, msgs>>

NextLegacy ==
    \/ \E k \in {"esc", "enter", "backspace", "ctrl+c", "j", "k", "l", "s", "d", "i", "q", "D"} :
          LegacyKeyPress(k)
    \/ TablesFetched

SpecLegacy == InitLegacy /\ [][NextLegacy]_vars

(***************************************************************************)
(* Properties of the legacy table list (SpecLegacy).                       *)
(***************************************************************************)
\* C38: in the legacy table-list model the selection and the scroll position stay in
\* range: 0 <= scrollOffset <= selectedIndex <= scrollOffset + 4, selectedIndex is
\* below len(filtered) when filtered is not empty and 0 when it is, so the slice
\* filtered[scrollOffset:] that View takes is valid.
C38_SelectionInRange ==
    /\ 0 <= ui.m.scrollOffset
    /\ ui.m.scrollOffset <= ui.m.selectedIndex
    /\ ui.m.selectedIndex <= ui.m.scrollOffset + 4
    /\ ui.m.filtered # <<>> => ui.m.selectedIndex < Len(ui.m.filtered)
    /\ ui.m.filtered = <<>> => ui.m.selectedIndex = 0
    /\ ui.m.scrollOffset <= Len(ui.m.filtered)

\* The last of seven names is selected and the list has scrolled down by two.
C38_Witness ==
    /\ Len(ui.m.filtered) = 7
    /\ ui.m.selectedIndex = 6
    /\ ui.m.scrollOffset = 2
    /\ ui.op = "key"

\* The list had scrolled and the filter was cleared with d d: the selection stayed.
C38_WitnessCleared ==
    /\ ui.m.scrollOffset >= 1
    /\ ui.m.focus = "focusTableInput"
    /\ ~ui.m.tableInput.focused
    /\ ui.m.tableInput.value = <<>>
    /\ ui.m.ddBuffer = ""
    /\ ui.op = "key"

\* The characters of f occur in s in order, not necessarily next to each other.
IsSubsequence(f, s) ==
    \E at \in [1..Len(f) -> 1..Len(s)] :
        /\ \A i, j \in 1..Len(f) : i < j => at[i] < at[j]
        /\ \A i \in 1..Len(f) : s[at[i]] = f[i]

\* The names the filter text keeps, by the rule.
Kept(tables, text) ==
    SelectSeq(tables, LAMBDA table : IsSubsequence(ToLower(text), ToLower(table)))

\* C39: FilterTables returns exactly the names, in input order, of which the
\* lower-cased filter text is a subsequence of the lower-cased name; the empty text
\* returns every name, and filtering the result again returns the same list.
C39_FilterIsSubsequenceMatch ==
    LET text == ui.m.tableInput.value
        tables == ui.m.tables
    IN  /\ FilterTables(tables, text) = Kept(tables, text)
        /\ filterTables(tables, text) = Kept(tables, text)
        /\ FilterTables(tables, <<>>) = tables
        /\ FilterTables(FilterTables(tables, text), text) = FilterTables(tables, text)
        /\ ui.op = "filter" => ui.m.filtered = Kept(tables, text)

\* The text "Jd" was typed over seven names and keeps the two in which j and d occur
\* in that order, in one of them apart and in capitals.
C39_Witness ==
    /\ ui.op = "filter"
    /\ Len(ui.m.tables) = 7
    /\ ui.m.tableInput.value = <<"j", "D">>
    /\ ui.m.filtered = <<<<"j", "d">>, <<"J", "q", "D">>>>

====
